---- MODULE Spec2Model ----
(***************************************************************************)
(* MCP-File-Manager: the sandboxed search service (search_server.py) and   *)
(* the intent-routing client loop (mcp_files_search_client.py).            *)
(*                                                                         *)
(* Text is modelled character by character: a string is a sequence of      *)
(* one-character strings, a path is a sequence of names (its components).  *)
(* Messages the code builds from literals are TLA+ strings.                *)
(***************************************************************************)
EXTENDS Integers, Sequences, FiniteSets, TLC

VARIABLES
    ALLOWED_PATHS,  \* search_server.py: the sandbox table, in dict order
    request,        \* the SearchRequest being handled (<<>>: none)
    response,       \* the SearchResponse of the handler (<<>>: none yet)
    searched,       \* the roots _perform_search was called on for `request`
    pc,             \* client loop: position in the body of `while True`
    query,          \* client loop: the line read by input()
    ai_raw,         \* client loop: the completion returned by llm.invoke
    plan,           \* client loop: the result of the JSON cascade
    outcome,        \* client loop: what the turn printed and did
    turns,          \* client loop: turns started so far
    calls,          \* client loop: the outside calls of the turn so far, in order
    workers         \* search_server.py: the locals of each pool thread in SearchFiles

vars == <<ALLOWED_PATHS, request, response, searched,
          pc, query, ai_raw, plan, outcome, turns, calls, workers>>

serverVars == <<ALLOWED_PATHS, request, response, searched>>
clientVars == <<pc, query, ai_raw, plan, outcome, turns, calls>>
poolVars == <<workers>>

(***************************************************************************)
(* Bounds of the model.                                                    *)
(***************************************************************************)
BulkCount == 21    \* directories of the Bulk folder, each holding notes.md
MaxWorkers == 2    \* pool threads that handle requests at the same time
MaxTurns == 2      \* turns of the client loop that are explored

(***************************************************************************)
(* Characters and str.lower().                                             *)
(***************************************************************************)
UpperLetters ==
    <<"A", "B", "C", "D", "E", "F", "G", "H", "I", "J", "K", "L", "M",
      "N", "O", "P", "Q", "R", "S", "T", "U", "V", "W", "X", "Y", "Z">>
LowerLetters ==
    <<"a", "b", "c", "d", "e", "f", "g", "h", "i", "j", "k", "l", "m",
      "n", "o", "p", "q", "r", "s", "t", "u", "v", "w", "x", "y", "z">>
Digits == <<"0", "1", "2", "3", "4", "5", "6", "7", "8", "9">>

LowerChar(c) ==
    IF \E i \in DOMAIN UpperLetters : UpperLetters[i] = c
    THEN LowerLetters[CHOOSE i \in DOMAIN UpperLetters : UpperLetters[i] = c]
    ELSE c

\* str.lower()
Lower(s) == [i \in DOMAIN s |-> LowerChar(s[i])]

\* str.startswith(c) for a one-character prefix
StartsWith(s, c) == Len(s) > 0 /\ s[1] = c

\* `sub in s` for a two-character sub
ContainsPair(s, a, b) == \E i \in 1..(Len(s) - 1) : s[i] = a /\ s[i + 1] = b

(***************************************************************************)
(* fnmatch.fnmatch(name, pat): normcase of both sides (the server runs on  *)
(* Windows: '/' becomes '\' and the text is lowercased), then the shell    *)
(* glob: '*' any run, '?' any one character, '[seq]' one character of seq, *)
(* '[!seq]' one character not of seq, a '[' that is never closed is a      *)
(* literal.  Ranges ('-') are outside the alphabet of the model.            *)
(***************************************************************************)
NormCase(s) == [i \in DOMAIN s |-> IF s[i] = "/" THEN "\\" ELSE LowerChar(s[i])]

\* index of the first "]" of p at or after j, 0 when there is none
FirstClose(p, j) ==
    IF \E k \in j..Len(p) : p[k] = "]"
    THEN CHOOSE k \in j..Len(p) : p[k] = "]" /\ \A m \in j..(k - 1) : p[m] # "]"
    ELSE 0

\* p starts with "[": the index of the "]" closing the class, 0 when unclosed
ClassEnd(p) ==
    LET j1 == IF Len(p) >= 2 /\ p[2] = "!" THEN 3 ELSE 2
        j2 == IF j1 <= Len(p) /\ p[j1] = "]" THEN j1 + 1 ELSE j1
    IN FirstClose(p, j2)

ClassHas(stuff, c) ==
    IF stuff[1] = "!"
    THEN \A i \in 2..Len(stuff) : stuff[i] # c
    ELSE \E i \in 1..Len(stuff) : stuff[i] = c

RECURSIVE GlobMatch(_, _)
GlobMatch(n, p) ==
    IF p = <<>> THEN n = <<>>
    ELSE IF Head(p) = "*"
        THEN GlobMatch(n, Tail(p)) \/ (n # <<>> /\ GlobMatch(Tail(n), p))
    ELSE IF n = <<>> THEN FALSE
    ELSE IF Head(p) = "?" THEN GlobMatch(Tail(n), Tail(p))
    ELSE IF Head(p) = "[" /\ ClassEnd(p) # 0
        THEN /\ ClassHas(SubSeq(p, 2, ClassEnd(p) - 1), Head(n))
             /\ GlobMatch(Tail(n), SubSeq(p, ClassEnd(p) + 1, Len(p)))
    ELSE Head(n) = Head(p) /\ GlobMatch(Tail(n), Tail(p))

fnmatch(name, pat) == GlobMatch(NormCase(name), NormCase(pat))

(***************************************************************************)
(* The filesystem the server walks.  Entry i of Nodes is a file or a       *)
(* directory; parent is the index of its directory (0: the drive), and the *)
(* entries of a directory are listed in index order.  A directory that is  *)
(* not readable makes os.scandir fail.                                     *)
(***************************************************************************)
F(name, parent) == [name |-> name, parent |-> parent, dir |-> FALSE, readable |-> TRUE]
D(name, parent) == [name |-> name, parent |-> parent, dir |-> TRUE, readable |-> TRUE]
X(name, parent) == [name |-> name, parent |-> parent, dir |-> TRUE, readable |-> FALSE]

FixedNodes == <<
    D(<<"u">>, 0),                                                         \*  1 u
    D(<<"D", "o", "c", "s">>, 1),                                          \*  2 u/Docs
    F(<<"a", ".", "t", "x", "t">>, 2),                                     \*  3 a.txt
    F(<<".", "h", "i", "d", "d", "e", "n", ".", "t", "x", "t">>, 2),       \*  4 .hidden.txt
    D(<<"s", "u", "b">>, 2),                                               \*  5 sub
    F(<<"b", ".", "T", "X", "T">>, 5),                                     \*  6 sub/b.TXT
    D(<<".", "g", "i", "t">>, 2),                                          \*  7 .git
    F(<<"c", ".", "t", "x", "t">>, 7),                                     \*  8 .git/c.txt
    F(<<"R", "E", "A", "D", "M", "E", ".", "m", "d">>, 2),                 \*  9 README.md
    F(<<"R", "E", "A", "D", "M", "E", ".", "m", "d", ".", "b", "a", "k">>, 2), \* 10 README.md.bak
    D(<<"P", "i", "c", "s">>, 2),                                          \* 11 Docs/Pics
    F(<<"r", "e", "a", "d", "m", "e", ".", "M", "D">>, 11),                \* 12 Pics/readme.MD
    D(<<"x", ".", "t", "x", "t">>, 11),                                    \* 13 Pics/x.txt (a directory)
    X(<<"l", "o", "c", "k", "e", "d">>, 2),                                \* 14 locked (unreadable)
    F(<<"d", ".", "t", "x", "t">>, 14),                                    \* 15 locked/d.txt
    D(<<".", "c", "f", "g">>, 1),                                          \* 16 u/.cfg
    D(<<"M", "u", "s", "i", "c">>, 16),                                    \* 17 u/.cfg/Music
    F(<<"s", ".", "t", "x", "t">>, 17),                                    \* 18 Music/s.txt
    X(<<"V", "a", "u", "l", "t">>, 1),                                     \* 19 u/Vault (unreadable)
    F(<<"v", ".", "t", "x", "t">>, 19),                                    \* 20 Vault/v.txt
    D(<<"B", "u", "l", "k">>, 1)                                           \* 21 u/Bulk
>>

BulkParent == Len(FixedNodes)
BulkDirName(i) == <<"d", Digits[(i \div 10) + 1], Digits[(i % 10) + 1]>>
BulkDirs == [i \in 1..BulkCount |-> D(BulkDirName(i), BulkParent)]
BulkFiles == [i \in 1..BulkCount |->
                F(<<"n", "o", "t", "e", "s", ".", "m", "d">>, BulkParent + i)]

Nodes == FixedNodes \o BulkDirs \o BulkFiles

RECURSIVE PathFrom(_)
PathFrom(i) == IF i = 0 THEN <<>> ELSE Append(PathFrom(Nodes[i].parent), Nodes[i].name)

\* the absolute path of every entry
PathOf == [i \in DOMAIN Nodes |-> PathFrom(i)]

DocsPath == <<<<"u">>, <<"D", "o", "c", "s">>>>
PicsPath == Append(DocsPath, <<"P", "i", "c", "s">>)
MusicPath == <<<<"u">>, <<".", "c", "f", "g">>, <<"M", "u", "s", "i", "c">>>>
BulkPath == <<<<"u">>, <<"B", "u", "l", "k">>>>
VaultPath == <<<<"u">>, <<"V", "a", "u", "l", "t">>>>
FilePath == Append(DocsPath, <<"a", ".", "t", "x", "t">>)
NoPath == <<>>

Exists(path) == \E i \in DOMAIN Nodes : PathOf[i] = path
NodeAt(path) == CHOOSE i \in DOMAIN Nodes : PathOf[i] = path

\* os.path.isdir
isdir(path) == Exists(path) /\ Nodes[NodeAt(path)].dir

RECURSIVE SortedSeq(_)
SortedSeq(S) ==
    IF S = {} THEN <<>>
    ELSE LET m == CHOOSE x \in S : \A y \in S : x <= y
         IN <<m>> \o SortedSeq(S \ {m})

\* os.scandir(top), split by os.walk into directories and files
ListDirs == [i \in DOMAIN Nodes |->
    SortedSeq({j \in DOMAIN Nodes : Nodes[j].parent = i /\ Nodes[j].dir})]
ListFiles == [i \in DOMAIN Nodes |->
    SortedSeq({j \in DOMAIN Nodes : Nodes[j].parent = i /\ ~Nodes[j].dir})]

(***************************************************************************)
(* search_server.py: the sandbox table.                                    *)
(***************************************************************************)
KeyOrder == <<
    <<"d", "o", "c", "s">>,
    <<"d", "o", "w", "n", "l", "o", "a", "d", "s">>,
    <<"d", "e", "s", "k", "t", "o", "p">>,
    <<"p", "i", "c", "t", "u", "r", "e", "s">>,
    <<"v", "i", "d", "e", "o", "s">>,
    <<"m", "u", "s", "i", "c">>
>>

\* what SHGetKnownFolderPath may answer for each key of KeyOrder: None (the
\* call failed), a directory, or a path that is no directory.  Desktop may be
\* the same folder as Documents, Pictures lies inside it, and Music lies
\* under a folder whose name starts with a dot, and Videos cannot be listed.
KnownFolderAnswers == <<
    {NoPath, DocsPath, FilePath},   \* docs
    {NoPath, BulkPath},             \* downloads
    {NoPath, DocsPath},             \* desktop
    {NoPath, PicsPath},             \* pictures
    {NoPath, VaultPath},            \* videos
    {NoPath, MusicPath}             \* music
>>
AllAnswers == UNION {KnownFolderAnswers[i] : i \in DOMAIN KnownFolderAnswers}

\* the dict literal, then the comprehension that keeps `v and os.path.isdir(v)`
BuildTable(kf) ==
    SelectSeq([i \in DOMAIN KeyOrder |-> [key |-> KeyOrder[i], root |-> kf[i]]],
              LAMBDA e : e.root # NoPath /\ isdir(e.root))

TableKeys(table) == [i \in DOMAIN table |-> table[i].key]
InTable(table, k) == \E i \in DOMAIN table : table[i].key = k
\* a lookup that ignores the key
RootOf_First(table, k) == table[1].root

\* ALLOWED_PATHS[base_path_key]
RootOf(table, k) == table[CHOOSE i \in DOMAIN table : table[i].key = k].root

(***************************************************************************)
(* FileSearcherServicer._perform_search                                    *)
(***************************************************************************)
\* a comparison that respects case (fnmatchcase on the raw name)
Matches_CaseSensitive(name, pattern) == GlobMatch(name, Lower(pattern))

\* a comparison that also takes the names the pattern is a beginning of
Matches_Prefix(name, pattern) == fnmatch(Lower(name), Append(Lower(pattern), "*"))

\* fnmatch.fnmatch(filename.lower(), pattern_lower)
Matches(name, pattern) == fnmatch(Lower(name), Lower(pattern))

\* a walk that lists the hidden directories and descends into them
PruneDirs_Keep(dirs, include_hidden) == dirs

\* dirs[:] = [d for d in dirs if not d.startswith('.')]: os.walk descends only
\* into what is left of dirs
PruneDirs(dirs, include_hidden) ==
    IF include_hidden THEN dirs
    ELSE SelectSeq(dirs, LAMBDA j : ~StartsWith(Nodes[j].name, "."))

\* files = [f for f in files if not f.startswith('.')]
VisibleFiles(files, include_hidden) ==
    IF include_hidden THEN files
    ELSE SelectSeq(files, LAMBDA j : ~StartsWith(Nodes[j].name, "."))

\* os.path.join(root, name) for every listed name that matches
Hits(root, ids, pattern) ==
    LET hit == SelectSeq(ids, LAMBDA j : Matches(Nodes[j].name, pattern))
    IN [k \in DOMAIN hit |-> Append(root, Nodes[hit[k]].name)]

\* os.walk(root, topdown=True) with the loop body applied to every triple it
\* yields: a directory that cannot be listed yields nothing (onerror is None)
\* top is the directory (its entry), root the path os.walk yields for it
RECURSIVE Walk(_, _, _, _)
RECURSIVE WalkEach(_, _, _, _)
Walk(top, root, pattern, include_hidden) ==
    IF ~Nodes[top].readable THEN <<>>
    ELSE LET dirs == PruneDirs(ListDirs[top], include_hidden)
             files == VisibleFiles(ListFiles[top], include_hidden)
         IN Hits(root, files, pattern) \o Hits(root, dirs, pattern)
            \o WalkEach(root, dirs, pattern, include_hidden)
WalkEach(root, dirs, pattern, include_hidden) ==
    IF dirs = <<>> THEN <<>>
    ELSE Walk(Head(dirs), Append(root, Nodes[Head(dirs)].name), pattern, include_hidden)
         \o WalkEach(root, Tail(dirs), pattern, include_hidden)

\* a search that gives up on a root when a directory below it cannot be listed
perform_search_Abort(root_dir, pattern, include_hidden) ==
    IF \E j \in DOMAIN Nodes :
          /\ Nodes[j].dir /\ ~Nodes[j].readable
          /\ Len(PathOf[j]) >= Len(root_dir)
          /\ SubSeq(PathOf[j], 1, Len(root_dir)) = root_dir
    THEN <<>>
    ELSE IF isdir(root_dir)
    THEN Walk(NodeAt(root_dir), root_dir, pattern, include_hidden)
    ELSE <<>>

perform_search(root_dir, pattern, include_hidden) ==
    IF isdir(root_dir)
    THEN Walk(NodeAt(root_dir), root_dir, pattern, include_hidden)
    ELSE <<>>

(***************************************************************************)
(* FileSearcherServicer.SearchFiles                                        *)
(***************************************************************************)
NoError == ""
InvalidPatternMsg == "Invalid pattern."
InvalidKeyMsg == "Invalid base path key. Allowed keys are: "

SearchRequest(file_pattern, has_key, base_path_key, include_hidden) ==
    [file_pattern |-> file_pattern, has_base_path_key |-> has_key,
     base_path_key |-> base_path_key, include_hidden |-> include_hidden]

\* error_keys is the list(ALLOWED_PATHS.keys()) formatted into the message
SearchResponse(error_message, error_keys, found_files) ==
    [error_message |-> error_message, error_keys |-> error_keys,
     found_files |-> found_files]

\* ".." in pattern or pattern.startswith(("/", "\\"))
UnsafePattern(pattern) ==
    \/ ContainsPair(pattern, ".", ".")
    \/ StartsWith(pattern, "/")
    \/ StartsWith(pattern, "\\")

\* `if base_path_key:` None (no field) and "" are both false
KeyGiven(req) == req.has_base_path_key /\ Lower(req.base_path_key) # <<>>

\* seq without the elements of seen and without repeats
RECURSIVE Fresh(_, _)
Fresh(seq, seen) ==
    IF seq = <<>> THEN <<>>
    ELSE IF Head(seq) \in seen THEN Fresh(Tail(seq), seen)
    ELSE <<Head(seq)>> \o Fresh(Tail(seq), seen \cup {Head(seq)})

\* a global search that drops the paths an earlier root already gave
RECURSIVE SearchAll_Dedup(_, _, _)
SearchAll_Dedup(table, pattern, include_hidden) ==
    IF table = <<>> THEN <<>>
    ELSE LET first == perform_search(Head(table).root, pattern, include_hidden)
         IN first \o Fresh(SearchAll_Dedup(Tail(table), pattern, include_hidden),
                           {first[i] : i \in DOMAIN first})

\* the loop of the global search: the roots in dict order
RECURSIVE SearchAll(_, _, _)
SearchAll(table, pattern, include_hidden) ==
    IF table = <<>> THEN <<>>
    ELSE perform_search(Head(table).root, pattern, include_hidden)
         \o SearchAll(Tail(table), pattern, include_hidden)

\* a handler that looks at the key before it looks at the pattern
SearchFiles_KeyFirst(table, req) ==
    LET pattern == req.file_pattern
        base_path_key == Lower(req.base_path_key)
    IN IF KeyGiven(req) /\ ~InTable(table, base_path_key)
       THEN [response |-> SearchResponse(InvalidKeyMsg, TableKeys(table), <<>>),
             searched |-> <<>>]
       ELSE IF UnsafePattern(pattern)
       THEN [response |-> SearchResponse(InvalidPatternMsg, <<>>, <<>>),
             searched |-> <<>>]
       ELSE IF KeyGiven(req)
       THEN [response |-> SearchResponse(NoError, <<>>,
                 perform_search(RootOf(table, base_path_key), pattern,
                                req.include_hidden)),
             searched |-> <<RootOf(table, base_path_key)>>]
       ELSE [response |-> SearchResponse(NoError, <<>>,
                 SearchAll(table, pattern, req.include_hidden)),
             searched |-> [i \in DOMAIN table |-> table[i].root]]

\* a handler that sets the key error and goes on to the global search
SearchFiles_NoReturn(table, req) ==
    LET pattern == req.file_pattern
        base_path_key == Lower(req.base_path_key)
    IN IF UnsafePattern(pattern)
       THEN [response |-> SearchResponse(InvalidPatternMsg, <<>>, <<>>),
             searched |-> <<>>]
       ELSE IF KeyGiven(req) /\ InTable(table, base_path_key)
       THEN [response |-> SearchResponse(NoError, <<>>,
                 perform_search(RootOf(table, base_path_key), pattern,
                                req.include_hidden)),
             searched |-> <<RootOf(table, base_path_key)>>]
       ELSE [response |-> SearchResponse(
                 IF KeyGiven(req) THEN InvalidKeyMsg ELSE NoError,
                 IF KeyGiven(req) THEN TableKeys(table) ELSE <<>>,
                 SearchAll(table, pattern, req.include_hidden)),
             searched |-> [i \in DOMAIN table |-> table[i].root]]

\* the handler: the response and the roots it searched
SearchFiles(table, req) ==
    LET pattern == req.file_pattern
        base_path_key == Lower(req.base_path_key)
    IN IF UnsafePattern(pattern)
       THEN [response |-> SearchResponse(InvalidPatternMsg, <<>>, <<>>),
             searched |-> <<>>]
       ELSE IF KeyGiven(req)
       THEN IF ~InTable(table, base_path_key)
            THEN [response |-> SearchResponse(InvalidKeyMsg, TableKeys(table), <<>>),
                  searched |-> <<>>]
            ELSE [response |-> SearchResponse(NoError, <<>>,
                      perform_search(RootOf(table, base_path_key), pattern,
                                     req.include_hidden)),
                  searched |-> <<RootOf(table, base_path_key)>>]
       ELSE [response |-> SearchResponse(NoError, <<>>,
                 SearchAll(table, pattern, req.include_hidden)),
             searched |-> [i \in DOMAIN table |-> table[i].root]]

(***************************************************************************)
(* Requests the service is sent.                                           *)
(***************************************************************************)
Patterns == {
    <<"*", ".", "t", "x", "t">>,                      \* *.txt
    <<"*", ".", "T", "X", "T">>,                      \* *.TXT
    <<"*">>,                                          \* *
    <<"R", "e", "a", "d", "m", "e", ".", "m", "d">>,  \* Readme.md
    <<"?", ".", "t", "x", "t">>,                      \* ?.txt
    <<"[", "A", "b", "]", ".", "t", "*">>,            \* [Ab].t*
    <<"[", "!", "a", "]", ".", "t", "x", "t">>,       \* [!a].txt
    <<"[", "a">>,                                     \* [a
    <<".", "*">>,                                     \* .*
    <<".", ".">>,                                     \* ..
    <<"*", ".", ".", "*">>,                           \* *..*
    <<"/", "*">>,                                     \* /*
    <<"\\", "*">>                                     \* \*
}

RequestKeys == {
    <<>>,                                             \* the empty string
    <<"d", "o", "c", "s">>,                           \* docs
    <<"D", "o", "c", "s">>,                           \* Docs
    <<"P", "I", "C", "T", "U", "R", "E", "S">>,       \* PICTURES
    <<"m", "u", "s", "i", "c">>,                      \* music
    <<"t", "m", "p">>                                 \* tmp
}

Requests ==
    {SearchRequest(p, FALSE, <<>>, h) : p \in Patterns, h \in BOOLEAN}
    \cup {SearchRequest(p, TRUE, k, h) : p \in Patterns, k \in RequestKeys, h \in BOOLEAN}

(***************************************************************************)
(* The service as a state machine.                                         *)
(***************************************************************************)
KnownFolderChoices ==
    {kf \in [DOMAIN KeyOrder -> AllAnswers] :
        \A i \in DOMAIN KeyOrder : kf[i] \in KnownFolderAnswers[i]}

\* the locals of SearchFiles in a thread that handles no request
IdleWorker ==
    [pc |-> "idle", request |-> <<>>, pattern |-> <<>>, include_hidden |-> FALSE,
     base_path_key |-> <<>>, all_found_files |-> <<>>, next |-> 0,
     response |-> SearchResponse(NoError, <<>>, <<>>)]

PoolIdle == workers = [w \in 1..MaxWorkers |-> IdleWorker]

ClientIdle ==
    /\ pc = "idle"
    /\ query = <<>>
    /\ ai_raw = <<>>
    /\ plan = <<>>
    /\ outcome = <<>>
    /\ turns = 0
    /\ calls = <<>>

Init ==
    /\ \E kf \in KnownFolderChoices : ALLOWED_PATHS = BuildTable(kf)
    /\ request = <<>>
    /\ response = <<>>
    /\ searched = <<>>
    /\ ClientIdle
    /\ PoolIdle

\* a client sends a request
Receive(req) ==
    /\ request = <<>>
    /\ request' = <<req>>
    /\ UNCHANGED <<ALLOWED_PATHS, response, searched>>
    /\ UNCHANGED <<clientVars, poolVars>>

\* a worker runs SearchFiles on it
Serve ==
    /\ request # <<>>
    /\ response = <<>>
    /\ LET r == SearchFiles(ALLOWED_PATHS, request[1])
       IN /\ response' = <<r.response>>
          /\ searched' = r.searched
    /\ UNCHANGED <<ALLOWED_PATHS, request>>
    /\ UNCHANGED <<clientVars, poolVars>>

\* the response goes back to the client
Return ==
    /\ response # <<>>
    /\ request' = <<>>
    /\ response' = <<>>
    /\ searched' = <<>>
    /\ UNCHANGED ALLOWED_PATHS
    /\ UNCHANGED <<clientVars, poolVars>>

Next ==
    \/ \E req \in Requests : Receive(req)
    \/ Serve
    \/ Return

Spec == Init /\ [][Next]_vars

(***************************************************************************)
(* The worker pool (ThreadPoolExecutor): several threads run SearchFiles   *)
(* at the same time, each on its own request and with its own locals; the  *)
(* module-level ALLOWED_PATHS is the only object they share.  One step is  *)
(* one stretch of the handler between two reads of ALLOWED_PATHS.          *)
(***************************************************************************)
PoolFolderChoices ==
    {kf \in KnownFolderChoices :
        /\ kf[1] = DocsPath /\ kf[4] = PicsPath
        /\ \A i \in {2, 3, 5, 6} : kf[i] = NoPath}

PoolRequests == {
    SearchRequest(<<"*", ".", "t", "x", "t">>, FALSE, <<>>, FALSE),
    SearchRequest(<<"R", "e", "a", "d", "m", "e", ".", "m", "d">>, FALSE, <<>>, TRUE),
    SearchRequest(<<"*", ".", "t", "x", "t">>, TRUE, <<"P", "I", "C", "T", "U", "R", "E", "S">>, FALSE),
    SearchRequest(<<"*">>, TRUE, <<"t", "m", "p">>, FALSE),
    SearchRequest(<<".", ".">>, FALSE, <<>>, FALSE)
}

PoolInit ==
    /\ \E kf \in PoolFolderChoices : ALLOWED_PATHS = BuildTable(kf)
    /\ request = <<>>
    /\ response = <<>>
    /\ searched = <<>>
    /\ ClientIdle
    /\ PoolIdle

\* one list for all the threads: what a thread finds lands in every list
Extended_Shared(ws, w, found) ==
    [v \in DOMAIN ws |-> [ws[v] EXCEPT !.all_found_files = @ \o found]]

\* all_found_files is a local of the call: only the thread's own list grows
Extended(ws, w, found) == [ws EXCEPT ![w].all_found_files = @ \o found]

\* lines 92-101: the thread takes a request and sets up its locals
Accept(w, req) ==
    /\ workers[w].pc = "idle"
    /\ workers' = [workers EXCEPT ![w] =
            [IdleWorker EXCEPT !.pc = "pattern",
                               !.request = <<req>>,
                               !.pattern = req.file_pattern,
                               !.include_hidden = req.include_hidden,
                               !.base_path_key = IF req.has_base_path_key
                                                 THEN <<Lower(req.base_path_key)>>
                                                 ELSE <<>>]]
    /\ UNCHANGED <<serverVars, clientVars>>

\* lines 103-106
CheckPattern(w) ==
    /\ workers[w].pc = "pattern"
    /\ workers' = [workers EXCEPT ![w] =
            IF UnsafePattern(workers[w].pattern)
            THEN [@ EXCEPT !.response = SearchResponse(InvalidPatternMsg, <<>>, <<>>),
                           !.pc = "return"]
            ELSE [@ EXCEPT !.pc = "key"]]
    /\ UNCHANGED <<serverVars, clientVars>>

\* lines 108-113 and the start of the loop of line 122
CheckKey(w) ==
    /\ workers[w].pc = "key"
    /\ LET key == workers[w].base_path_key
       IN workers' = [workers EXCEPT ![w] =
            IF key # <<>> /\ key[1] # <<>>
            THEN IF ~InTable(ALLOWED_PATHS, key[1])
                 THEN [@ EXCEPT !.response = SearchResponse(InvalidKeyMsg,
                                                 TableKeys(ALLOWED_PATHS), <<>>),
                                !.pc = "return"]
                 ELSE [@ EXCEPT !.pc = "specific"]
            ELSE [@ EXCEPT !.pc = "global", !.next = 1]]
    /\ UNCHANGED <<serverVars, clientVars>>

\* lines 115-117
SearchSpecific(w) ==
    /\ workers[w].pc = "specific"
    /\ workers' = [Extended(workers, w,
                            perform_search(RootOf(ALLOWED_PATHS, workers[w].base_path_key[1]),
                                           workers[w].pattern, workers[w].include_hidden))
                   EXCEPT ![w].pc = "extend"]
    /\ UNCHANGED <<serverVars, clientVars>>

\* lines 122-128: one round of the loop over ALLOWED_PATHS.items()
SearchNextRoot(w) ==
    /\ workers[w].pc = "global"
    /\ workers' =
          IF workers[w].next <= Len(ALLOWED_PATHS)
          THEN [Extended(workers, w,
                         perform_search(ALLOWED_PATHS[workers[w].next].root,
                                        workers[w].pattern, workers[w].include_hidden))
                EXCEPT ![w].next = @ + 1]
          ELSE [workers EXCEPT ![w].pc = "extend"]
    /\ UNCHANGED <<serverVars, clientVars>>

\* line 130
ExtendResponse(w) ==
    /\ workers[w].pc = "extend"
    /\ workers' = [workers EXCEPT
            ![w].response = SearchResponse(NoError, <<>>, workers[w].all_found_files),
            ![w].pc = "return"]
    /\ UNCHANGED <<serverVars, clientVars>>

\* line 132: the response leaves and the thread is free again
Reply(w) ==
    /\ workers[w].pc = "return"
    /\ workers' = [workers EXCEPT ![w] = IdleWorker]
    /\ UNCHANGED <<serverVars, clientVars>>

PoolNext ==
    \E w \in 1..MaxWorkers :
        \/ \E req \in PoolRequests : Accept(w, req)
        \/ CheckPattern(w)
        \/ CheckKey(w)
        \/ SearchSpecific(w)
        \/ SearchNextRoot(w)
        \/ ExtendResponse(w)
        \/ Reply(w)

PoolSpec == PoolInit /\ [][PoolNext]_vars

(***************************************************************************)
(* Properties of the search service.                                       *)
(***************************************************************************)
Handled == request # <<>> /\ response # <<>>
Req == request[1]
Resp == response[1]

HasDotDot(p) == \E i \in DOMAIN p : i < Len(p) /\ p[i] = "." /\ p[i + 1] = "."
LeadingSeparator(p) == p # <<>> /\ p[1] \in {"/", "\\"}
SafePattern(p) == ~HasDotDot(p) /\ ~LeadingSeparator(p)
Hidden(name) == name # <<>> /\ name[1] = "."

\* path lies strictly below root
IsUnder(path, root) ==
    /\ Len(path) > Len(root)
    /\ \A k \in DOMAIN root : path[k] = root[k]

TableRoots == {ALLOWED_PATHS[i].root : i \in DOMAIN ALLOWED_PATHS}
KeyNamed == Lower(Req.base_path_key)
KeyInTable == \E i \in DOMAIN ALLOWED_PATHS : ALLOWED_PATHS[i].key = KeyNamed
NamedRoots == {ALLOWED_PATHS[i].root : i \in {j \in DOMAIN ALLOWED_PATHS :
                                               ALLOWED_PATHS[j].key = KeyNamed}}

\* C1: a request whose file_pattern contains ".." or starts with "/" or "\"
\* is answered with error_message "Invalid pattern." and no found_files, and
\* nothing is searched, whatever base_path_key is (absent, in the table, or
\* not in the table).
C1_UnsafePatternRejected ==
    (Handled /\ (HasDotDot(Req.file_pattern) \/ LeadingSeparator(Req.file_pattern)))
        => /\ Resp.error_message = "Invalid pattern."
           /\ Resp.found_files = <<>>
           /\ searched = <<>>

\* an unsafe pattern sent with a key that is not in the table, while the table
\* has roots that could have been walked
C1_Witness ==
    /\ Handled
    /\ HasDotDot(Req.file_pattern)
    /\ Req.has_base_path_key /\ Req.base_path_key # <<>> /\ ~KeyInTable
    /\ ALLOWED_PATHS # <<>>
    /\ Resp.error_message = "Invalid pattern."

\* C2: a request with a safe pattern whose base_path_key is set (any string,
\* the empty string included) and, lowercased, is no key of the table is
\* answered with a non-empty error_message and no found_files, and no root is
\* searched.
C2_UnknownKeyRejected ==
    (Handled /\ SafePattern(Req.file_pattern) /\ Req.has_base_path_key /\ ~KeyInTable)
        => /\ Resp.error_message # ""
           /\ Resp.found_files = <<>>
           /\ searched = <<>>

\* C3: every returned path names an entry below a root of the table; when the
\* request names a key of the table, every returned path lies below that
\* key's root and that root is the only one searched.
C3_ResultsInsideSandbox ==
    Handled =>
        /\ \A i \in DOMAIN Resp.found_files :
              /\ Exists(Resp.found_files[i])
              /\ \E r \in TableRoots : IsUnder(Resp.found_files[i], r)
        /\ \A i \in DOMAIN searched : searched[i] \in TableRoots
        /\ (Req.has_base_path_key /\ KeyInTable) =>
              /\ \A i \in DOMAIN Resp.found_files :
                    \A r \in NamedRoots : IsUnder(Resp.found_files[i], r)
              /\ \A i \in DOMAIN searched : searched[i] \in NamedRoots

\* a keyed search that returned paths while the table holds another root that
\* is not below the named one
C3_Witness ==
    /\ Handled
    /\ Req.has_base_path_key /\ KeyInTable
    /\ Resp.found_files # <<>>
    /\ \E r \in TableRoots : \A n \in NamedRoots : r # n /\ ~IsUnder(r, n)

\* C4 as stated: with include_hidden = false no component of a returned path
\* starts with ".".
C4_NoHiddenComponent ==
    (Handled /\ ~Req.include_hidden) =>
        \A i \in DOMAIN Resp.found_files :
            \A k \in DOMAIN Resp.found_files[i] : ~Hidden(Resp.found_files[i][k])

\* C4, amended: with include_hidden = false every returned path lies below a
\* searched root and none of its components below that root starts with ".";
\* so neither a hidden entry nor anything below a hidden directory of the
\* root is returned.
C4_NoHiddenBelowRoot ==
    (Handled /\ ~Req.include_hidden) =>
        \A i \in DOMAIN Resp.found_files :
            \E s \in DOMAIN searched :
                /\ IsUnder(Resp.found_files[i], searched[s])
                /\ \A k \in (Len(searched[s]) + 1)..Len(Resp.found_files[i]) :
                      ~Hidden(Resp.found_files[i][k])

\* a search without hidden entries that returned paths and left out an entry
\* whose own name is not hidden and matches, because it lies in a hidden
\* directory of a searched root
C4_Witness ==
    /\ Handled
    /\ ~Req.include_hidden
    /\ Resp.found_files # <<>>
    /\ \E j \in DOMAIN Nodes : \E d \in DOMAIN Nodes : \E s \in DOMAIN searched :
          /\ Nodes[j].parent = d
          /\ Hidden(Nodes[d].name) /\ ~Hidden(Nodes[j].name)
          /\ IsUnder(PathOf[d], searched[s])
          /\ fnmatch(Lower(Nodes[j].name), Lower(Req.file_pattern))
          /\ \A i \in DOMAIN Resp.found_files : Resp.found_files[i] # PathOf[j]

\* C5: a response has an error_message and no found_files, or no
\* error_message and found_files (possibly none); never both an error_message
\* and found_files.
C5_ErrorOrFiles ==
    Handled =>
        /\ Resp.error_message \in {"", "Invalid pattern.", InvalidKeyMsg}
        /\ Resp.error_message # "" => Resp.found_files = <<>>
        /\ ~(Resp.error_message # "" /\ Resp.found_files # <<>>)

\* a key error for a pattern that matches entries of the table's roots
C5_Witness ==
    /\ Handled
    /\ Resp.error_message = InvalidKeyMsg
    /\ Req.file_pattern = <<"*">>
    /\ ALLOWED_PATHS # <<>>

\* what the handler answers for the pattern and include_hidden of the request
\* when it is asked for the i-th key of the table alone
AloneAt(i) ==
    SearchFiles(ALLOWED_PATHS,
                SearchRequest(Req.file_pattern, TRUE, ALLOWED_PATHS[i].key,
                              Req.include_hidden)).response.found_files

RECURSIVE LenSum(_, _)
LenSum(segs, n) == IF n = 0 THEN 0 ELSE LenSum(segs, n - 1) + Len(segs[n])

\* C9: for a safe pattern and no base_path_key, found_files is the results of
\* the roots searched alone, laid end to end in the order of the table, with
\* nothing dropped, merged or moved; an empty table gives no files, no error.
C9_GlobalIsConcatenation ==
    (Handled /\ SafePattern(Req.file_pattern) /\ ~Req.has_base_path_key) =>
        LET segs == [i \in DOMAIN ALLOWED_PATHS |-> AloneAt(i)]
        IN /\ Resp.error_message = ""
           /\ Len(Resp.found_files) = LenSum(segs, Len(ALLOWED_PATHS))
           /\ \A i \in DOMAIN ALLOWED_PATHS : \A k \in DOMAIN segs[i] :
                 Resp.found_files[LenSum(segs, i - 1) + k] = segs[i][k]
           /\ searched = [i \in DOMAIN ALLOWED_PATHS |-> ALLOWED_PATHS[i].root]

\* a global search over two roots that returned the same path twice
C9_Witness ==
    /\ Handled
    /\ ~Req.has_base_path_key
    /\ Len(ALLOWED_PATHS) >= 2
    /\ \E i, j \in DOMAIN Resp.found_files :
          i < j /\ Resp.found_files[i] = Resp.found_files[j]

\* entry j is listed by the walk that starts at directory top: every
\* directory from top down to the one holding j can be listed and, without
\* include_hidden, neither j nor a directory between top and j is hidden
RECURSIVE WalkLists(_, _, _)
WalkLists(top, j, include_hidden) ==
    /\ j # top
    /\ Nodes[j].parent # 0
    /\ Nodes[Nodes[j].parent].readable
    /\ include_hidden \/ ~Hidden(Nodes[j].name)
    /\ Nodes[j].parent = top \/ WalkLists(top, Nodes[j].parent, include_hidden)

\* C10: the entries returned are exactly the listed entries whose lowercased
\* name is matched by the lowercased pattern under the shell glob, and each
\* is returned under its name as it is on disk.
C10_CaseInsensitiveMatch ==
    (Handled /\ Resp.error_message = "") =>
        {Resp.found_files[i] : i \in DOMAIN Resp.found_files}
          = {PathOf[j] : j \in {n \in DOMAIN Nodes :
                /\ \E s \in DOMAIN searched :
                      WalkLists(NodeAt(searched[s]), n, Req.include_hidden)
                /\ GlobMatch(Lower(Nodes[n].name), Lower(Req.file_pattern))}}

\* the pattern *.txt, asked in capitals or not, returns sub/b.TXT as named
C10_Witness ==
    /\ Handled
    /\ Lower(Req.file_pattern) = <<"*", ".", "t", "x", "t">>
    /\ Req.has_base_path_key /\ KeyInTable
    /\ \E i \in DOMAIN Resp.found_files :
          Resp.found_files[i] = DocsPath \o <<<<"s", "u", "b">>, <<"b", ".", "T", "X", "T">>>>

(***************************************************************************)
(* mcp_files_search_client.py: the words the client compares text with.    *)
(***************************************************************************)
W_action == <<"a", "c", "t", "i", "o", "n">>
W_answer == <<"a", "n", "s", "w", "e", "r">>
W_clarify == <<"c", "l", "a", "r", "i", "f", "y">>
W_show == <<"s", "h", "o", "w">>
W_search == <<"s", "e", "a", "r", "c", "h">>
W_file_pattern == <<"f", "i", "l", "e", "_", "p", "a", "t", "t", "e", "r", "n">>
W_file_name == <<"f", "i", "l", "e", "_", "n", "a", "m", "e">>
W_filename == <<"f", "i", "l", "e", "n", "a", "m", "e">>
W_name == <<"n", "a", "m", "e">>
W_file == <<"f", "i", "l", "e">>
W_base_path_key == <<"b", "a", "s", "e", "_", "p", "a", "t", "h", "_", "k", "e", "y">>
W_include_hidden == <<"i", "n", "c", "l", "u", "d", "e", "_", "h", "i", "d", "d", "e", "n">>
W_exit == <<"e", "x", "i", "t">>
W_quit == <<"q", "u", "i", "t">>
W_true == <<"t", "r", "u", "e">>
W_false == <<"f", "a", "l", "s", "e">>
W_null == <<"n", "u", "l", "l">>

(***************************************************************************)
(* json.loads.  A value is a record of one shape: t is its type and one of *)
(* s (text of a string), n (a number), b (a boolean), a (the items of an   *)
(* array), o (the members of an object, in order) holds it.  None is null. *)
(* The texts of the model hold no escapes and no fractions.                *)
(***************************************************************************)
JNull == [t |-> "null", s |-> <<>>, n |-> 0, b |-> FALSE, a |-> <<>>, o |-> <<>>]
JStr(cs) == [JNull EXCEPT !.t = "str", !.s = cs]
JNum(k) == [JNull EXCEPT !.t = "num", !.n = k]
JBool(v) == [JNull EXCEPT !.t = "bool", !.b = v]
JArr(items) == [JNull EXCEPT !.t = "arr", !.a = items]
JObj(members) == [JNull EXCEPT !.t = "obj", !.o = members]

Parsed(v, i) == [ok |-> TRUE, v |-> v, i |-> i]
Failed == [ok |-> FALSE, v |-> JNull, i |-> 0]

\* the first index at or after i that holds no blank, Len(s) + 1 if none
SkipWs(s, i) ==
    IF \E j \in i..Len(s) : s[j] # " "
    THEN CHOOSE j \in i..Len(s) : s[j] # " " /\ \A k \in i..(j - 1) : s[k] = " "
    ELSE Len(s) + 1

HasPrefixAt(s, i, w) ==
    /\ i + Len(w) - 1 <= Len(s)
    /\ \A k \in DOMAIN w : s[i + k - 1] = w[k]

IsDigit(c) == \E d \in DOMAIN Digits : Digits[d] = c
DigitVal(c) == (CHOOSE d \in DOMAIN Digits : Digits[d] = c) - 1

\* the first index at or after i that holds no digit
DigitsEnd(s, i) ==
    IF \E j \in i..Len(s) : ~IsDigit(s[j])
    THEN CHOOSE j \in i..Len(s) : ~IsDigit(s[j]) /\ \A k \in i..(j - 1) : IsDigit(s[k])
    ELSE Len(s) + 1

RECURSIVE NumVal(_, _, _)
NumVal(s, i, j) == IF j <= i THEN 0 ELSE NumVal(s, i, j - 1) * 10 + DigitVal(s[j - 1])

\* s[i] is a quote: the string that ends at the next quote
ParseString(s, i) ==
    IF \E j \in (i + 1)..Len(s) : s[j] = "\""
    THEN LET j == CHOOSE j \in (i + 1)..Len(s) :
                     s[j] = "\"" /\ \A k \in (i + 1)..(j - 1) : s[k] # "\""
         IN Parsed(JStr(SubSeq(s, i + 1, j - 1)), j + 1)
    ELSE Failed

\* 0, or a run of digits that does not start with 0
ParseNumber(s, i) ==
    IF s[i] = "0" THEN Parsed(JNum(0), i + 1)
    ELSE Parsed(JNum(NumVal(s, i, DigitsEnd(s, i))), DigitsEnd(s, i))

RECURSIVE ParseValue(_, _)
RECURSIVE ParseMembers(_, _, _)
RECURSIVE ParseElements(_, _, _)
ParseValue(s, i) ==
    IF i > Len(s) THEN Failed
    ELSE IF s[i] = "\"" THEN ParseString(s, i)
    ELSE IF s[i] = "{"
        THEN LET j == SkipWs(s, i + 1)
             IN IF j <= Len(s) /\ s[j] = "}" THEN Parsed(JObj(<<>>), j + 1)
                ELSE ParseMembers(s, j, <<>>)
    ELSE IF s[i] = "["
        THEN LET j == SkipWs(s, i + 1)
             IN IF j <= Len(s) /\ s[j] = "]" THEN Parsed(JArr(<<>>), j + 1)
                ELSE ParseElements(s, j, <<>>)
    ELSE IF HasPrefixAt(s, i, W_true) THEN Parsed(JBool(TRUE), i + Len(W_true))
    ELSE IF HasPrefixAt(s, i, W_false) THEN Parsed(JBool(FALSE), i + Len(W_false))
    ELSE IF HasPrefixAt(s, i, W_null) THEN Parsed(JNull, i + Len(W_null))
    ELSE IF IsDigit(s[i]) THEN ParseNumber(s, i)
    ELSE Failed

\* i is where a key must start; acc holds the members read so far
ParseMembers(s, i, acc) ==
    IF i > Len(s) \/ s[i] # "\"" THEN Failed
    ELSE LET key == ParseString(s, i)
             colon == SkipWs(s, key.i)
         IN IF ~key.ok \/ colon > Len(s) \/ s[colon] # ":" THEN Failed
            ELSE LET val == ParseValue(s, SkipWs(s, colon + 1))
                     after == SkipWs(s, val.i)
                     acc2 == Append(acc, [k |-> key.v.s, v |-> val.v])
                 IN IF ~val.ok \/ after > Len(s) THEN Failed
                    ELSE IF s[after] = "}" THEN Parsed(JObj(acc2), after + 1)
                    ELSE IF s[after] = "," THEN ParseMembers(s, SkipWs(s, after + 1), acc2)
                    ELSE Failed

\* i is where an item must start; acc holds the items read so far
ParseElements(s, i, acc) ==
    LET val == ParseValue(s, i)
        after == SkipWs(s, val.i)
        acc2 == Append(acc, val.v)
    IN IF ~val.ok \/ after > Len(s) THEN Failed
       ELSE IF s[after] = "]" THEN Parsed(JArr(acc2), after + 1)
       ELSE IF s[after] = "," THEN ParseElements(s, SkipWs(s, after + 1), acc2)
       ELSE Failed

\* json.loads(s): one value, blanks around it, nothing else
Loads(s) ==
    LET val == ParseValue(s, SkipWs(s, 1))
    IN IF val.ok /\ SkipWs(s, val.i) = Len(s) + 1 THEN val ELSE Failed

(***************************************************************************)
(* main: the JSON cascade (lines 182-196).                                 *)
(***************************************************************************)
\* str.find(c) and str.rfind(c), as 1-based indexes, 0 for -1
Find(s, c) ==
    IF \E i \in DOMAIN s : s[i] = c
    THEN CHOOSE i \in DOMAIN s : s[i] = c /\ \A k \in 1..(i - 1) : s[k] # c
    ELSE 0
RFind(s, c) ==
    IF \E i \in DOMAIN s : s[i] = c
    THEN CHOOSE i \in DOMAIN s : s[i] = c /\ \A k \in (i + 1)..Len(s) : s[k] # c
    ELSE 0

\* {"action": "answer", "answer": ai_raw}
AnswerPlan(raw) ==
    JObj(<<[k |-> W_action, v |-> JStr(W_answer)], [k |-> W_answer, v |-> JStr(raw)]>>)

\* a cascade without the brace extraction
ParsePlan_NoExtract(raw) ==
    IF Loads(raw).ok THEN Loads(raw).v ELSE AnswerPlan(raw)

ParsePlan(raw) ==
    IF Loads(raw).ok THEN Loads(raw).v
    ELSE LET start == Find(raw, "{")
             end == RFind(raw, "}")
         IN IF start # 0 /\ end # 0 /\ end > start
            THEN IF Loads(SubSeq(raw, start, end)).ok
                 THEN Loads(SubSeq(raw, start, end)).v
                 ELSE AnswerPlan(raw)
            ELSE AnswerPlan(raw)

(***************************************************************************)
(* What the completion backend returns and what the user types.            *)
(***************************************************************************)
Completions == {
    \* {"action":"answer","answer":"hi"}
    <<"{", "\"", "a", "c", "t", "i", "o", "n", "\"", ":", "\"", "a", "n", "s", "w", "e", "r", "\"", ",", "\"", "a", "n", "s", "w", "e", "r", "\"", ":", "\"", "h", "i", "\"", "}">>,
    \* here's your answer: {"action":"answer","answer":"hi"} thanks
    <<"h", "e", "r", "e", "'", "s", " ", "y", "o", "u", "r", " ", "a", "n", "s", "w", "e", "r", ":", " ", "{", "\"", "a", "c", "t", "i", "o", "n", "\"", ":", "\"", "a", "n", "s", "w", "e", "r", "\"", ",", "\"", "a", "n", "s", "w", "e", "r", "\"", ":", "\"", "h", "i", "\"", "}", " ", "t", "h", "a", "n", "k", "s">>,
    \* not json at all
    <<"n", "o", "t", " ", "j", "s", "o", "n", " ", "a", "t", " ", "a", "l", "l">>,
    \*  { "action" : "ANSWER" , "answer" : "hi" } 
    <<" ", "{", " ", "\"", "a", "c", "t", "i", "o", "n", "\"", " ", ":", " ", "\"", "A", "N", "S", "W", "E", "R", "\"", " ", ",", " ", "\"", "a", "n", "s", "w", "e", "r", "\"", " ", ":", " ", "\"", "h", "i", "\"", " ", "}", " ">>,
    \* {"action":"clarify","clarify":"where?"}
    <<"{", "\"", "a", "c", "t", "i", "o", "n", "\"", ":", "\"", "c", "l", "a", "r", "i", "f", "y", "\"", ",", "\"", "c", "l", "a", "r", "i", "f", "y", "\"", ":", "\"", "w", "h", "e", "r", "e", "?", "\"", "}">>,
    \* {"action":"clarify"}
    <<"{", "\"", "a", "c", "t", "i", "o", "n", "\"", ":", "\"", "c", "l", "a", "r", "i", "f", "y", "\"", "}">>,
    \* {"action":"answer"
    <<"{", "\"", "a", "c", "t", "i", "o", "n", "\"", ":", "\"", "a", "n", "s", "w", "e", "r", "\"">>,
    \* } {
    <<"}", " ", "{">>,
    \* see {x}: {"action":"answer","answer":"hi"}
    <<"s", "e", "e", " ", "{", "x", "}", ":", " ", "{", "\"", "a", "c", "t", "i", "o", "n", "\"", ":", "\"", "a", "n", "s", "w", "e", "r", "\"", ",", "\"", "a", "n", "s", "w", "e", "r", "\"", ":", "\"", "h", "i", "\"", "}">>,
    \* x {"action":"answer","answer":{"a":"b"}} y
    <<"x", " ", "{", "\"", "a", "c", "t", "i", "o", "n", "\"", ":", "\"", "a", "n", "s", "w", "e", "r", "\"", ",", "\"", "a", "n", "s", "w", "e", "r", "\"", ":", "{", "\"", "a", "\"", ":", "\"", "b", "\"", "}", "}", " ", "y">>,
    \* {"action":"answer","answer":"a}b"} ok
    <<"{", "\"", "a", "c", "t", "i", "o", "n", "\"", ":", "\"", "a", "n", "s", "w", "e", "r", "\"", ",", "\"", "a", "n", "s", "w", "e", "r", "\"", ":", "\"", "a", "}", "b", "\"", "}", " ", "o", "k">>,
    \* {"action":"answer","answer":"hi"} {"action":"clarify"}
    <<"{", "\"", "a", "c", "t", "i", "o", "n", "\"", ":", "\"", "a", "n", "s", "w", "e", "r", "\"", ",", "\"", "a", "n", "s", "w", "e", "r", "\"", ":", "\"", "h", "i", "\"", "}", " ", "{", "\"", "a", "c", "t", "i", "o", "n", "\"", ":", "\"", "c", "l", "a", "r", "i", "f", "y", "\"", "}">>,
    \* []
    <<"[", "]">>,
    \* [1,"x"]
    <<"[", "1", ",", "\"", "x", "\"", "]">>,
    \* 42
    <<"4", "2">>,
    \* null
    <<"n", "u", "l", "l">>,
    \* "hi"
    <<"\"", "h", "i", "\"">>,
    \* true
    <<"t", "r", "u", "e">>,
    \* {}
    <<"{", "}">>,
    \* {"action":null}
    <<"{", "\"", "a", "c", "t", "i", "o", "n", "\"", ":", "n", "u", "l", "l", "}">>,
    \* {"action":5}
    <<"{", "\"", "a", "c", "t", "i", "o", "n", "\"", ":", "5", "}">>,
    \* {"action":["show"]}
    <<"{", "\"", "a", "c", "t", "i", "o", "n", "\"", ":", "[", "\"", "s", "h", "o", "w", "\"", "]", "}">>,
    \* {"action":"dance"}
    <<"{", "\"", "a", "c", "t", "i", "o", "n", "\"", ":", "\"", "d", "a", "n", "c", "e", "\"", "}">>,
    \* {"action":"show","show":"README.md"}
    <<"{", "\"", "a", "c", "t", "i", "o", "n", "\"", ":", "\"", "s", "h", "o", "w", "\"", ",", "\"", "s", "h", "o", "w", "\"", ":", "\"", "R", "E", "A", "D", "M", "E", ".", "m", "d", "\"", "}">>,
    \* {"action":"search","search":[1]}
    <<"{", "\"", "a", "c", "t", "i", "o", "n", "\"", ":", "\"", "s", "e", "a", "r", "c", "h", "\"", ",", "\"", "s", "e", "a", "r", "c", "h", "\"", ":", "[", "1", "]", "}">>,
    \* {"action":"search","search":{"file_pattern":"*.txt","base_path_key":"docs","include_hidden":false}}
    <<"{", "\"", "a", "c", "t", "i", "o", "n", "\"", ":", "\"", "s", "e", "a", "r", "c", "h", "\"", ",", "\"", "s", "e", "a", "r", "c", "h", "\"", ":", "{", "\"", "f", "i", "l", "e", "_", "p", "a", "t", "t", "e", "r", "n", "\"", ":", "\"", "*", ".", "t", "x", "t", "\"", ",", "\"", "b", "a", "s", "e", "_", "p", "a", "t", "h", "_", "k", "e", "y", "\"", ":", "\"", "d", "o", "c", "s", "\"", ",", "\"", "i", "n", "c", "l", "u", "d", "e", "_", "h", "i", "d", "d", "e", "n", "\"", ":", "f", "a", "l", "s", "e", "}", "}">>,
    \* {"action":"search","search":{"file_pattern":"*.md","base_path_key":null,"include_hidden":true}}
    <<"{", "\"", "a", "c", "t", "i", "o", "n", "\"", ":", "\"", "s", "e", "a", "r", "c", "h", "\"", ",", "\"", "s", "e", "a", "r", "c", "h", "\"", ":", "{", "\"", "f", "i", "l", "e", "_", "p", "a", "t", "t", "e", "r", "n", "\"", ":", "\"", "*", ".", "m", "d", "\"", ",", "\"", "b", "a", "s", "e", "_", "p", "a", "t", "h", "_", "k", "e", "y", "\"", ":", "n", "u", "l", "l", ",", "\"", "i", "n", "c", "l", "u", "d", "e", "_", "h", "i", "d", "d", "e", "n", "\"", ":", "t", "r", "u", "e", "}", "}">>,
    \* {"action":"search","search":{"file_pattern":"*","base_path_key":"tmp"}}
    <<"{", "\"", "a", "c", "t", "i", "o", "n", "\"", ":", "\"", "s", "e", "a", "r", "c", "h", "\"", ",", "\"", "s", "e", "a", "r", "c", "h", "\"", ":", "{", "\"", "f", "i", "l", "e", "_", "p", "a", "t", "t", "e", "r", "n", "\"", ":", "\"", "*", "\"", ",", "\"", "b", "a", "s", "e", "_", "p", "a", "t", "h", "_", "k", "e", "y", "\"", ":", "\"", "t", "m", "p", "\"", "}", "}">>,
    \* {"action":"search","search":{"file_pattern":"*","base_path_key":"pictures"}}
    <<"{", "\"", "a", "c", "t", "i", "o", "n", "\"", ":", "\"", "s", "e", "a", "r", "c", "h", "\"", ",", "\"", "s", "e", "a", "r", "c", "h", "\"", ":", "{", "\"", "f", "i", "l", "e", "_", "p", "a", "t", "t", "e", "r", "n", "\"", ":", "\"", "*", "\"", ",", "\"", "b", "a", "s", "e", "_", "p", "a", "t", "h", "_", "k", "e", "y", "\"", ":", "\"", "p", "i", "c", "t", "u", "r", "e", "s", "\"", "}", "}">>,
    \* {"action":"search","search":{"file_pattern":"../*"}}
    <<"{", "\"", "a", "c", "t", "i", "o", "n", "\"", ":", "\"", "s", "e", "a", "r", "c", "h", "\"", ",", "\"", "s", "e", "a", "r", "c", "h", "\"", ":", "{", "\"", "f", "i", "l", "e", "_", "p", "a", "t", "t", "e", "r", "n", "\"", ":", "\"", ".", ".", "/", "*", "\"", "}", "}">>,
    \* {"action":"search","search":{"file_pattern":"zzz"}}
    <<"{", "\"", "a", "c", "t", "i", "o", "n", "\"", ":", "\"", "s", "e", "a", "r", "c", "h", "\"", ",", "\"", "s", "e", "a", "r", "c", "h", "\"", ":", "{", "\"", "f", "i", "l", "e", "_", "p", "a", "t", "t", "e", "r", "n", "\"", ":", "\"", "z", "z", "z", "\"", "}", "}">>,
    \* {"action":"search","search":{"file_pattern":5}}
    <<"{", "\"", "a", "c", "t", "i", "o", "n", "\"", ":", "\"", "s", "e", "a", "r", "c", "h", "\"", ",", "\"", "s", "e", "a", "r", "c", "h", "\"", ":", "{", "\"", "f", "i", "l", "e", "_", "p", "a", "t", "t", "e", "r", "n", "\"", ":", "5", "}", "}">>,
    \* {"action":"search","search":{"file_pattern":""}}
    <<"{", "\"", "a", "c", "t", "i", "o", "n", "\"", ":", "\"", "s", "e", "a", "r", "c", "h", "\"", ",", "\"", "s", "e", "a", "r", "c", "h", "\"", ":", "{", "\"", "f", "i", "l", "e", "_", "p", "a", "t", "t", "e", "r", "n", "\"", ":", "\"", "\"", "}", "}">>,
    \* {"action":"search"}
    <<"{", "\"", "a", "c", "t", "i", "o", "n", "\"", ":", "\"", "s", "e", "a", "r", "c", "h", "\"", "}">>,
    \* {"action":"show","show":{"file_name":"a.txt","base_path_key":"docs"}}
    <<"{", "\"", "a", "c", "t", "i", "o", "n", "\"", ":", "\"", "s", "h", "o", "w", "\"", ",", "\"", "s", "h", "o", "w", "\"", ":", "{", "\"", "f", "i", "l", "e", "_", "n", "a", "m", "e", "\"", ":", "\"", "a", ".", "t", "x", "t", "\"", ",", "\"", "b", "a", "s", "e", "_", "p", "a", "t", "h", "_", "k", "e", "y", "\"", ":", "\"", "d", "o", "c", "s", "\"", "}", "}">>,
    \* {"action":"show","show":{"file_name":"README.md","base_path_key":"docs","include_hidden":false}}
    <<"{", "\"", "a", "c", "t", "i", "o", "n", "\"", ":", "\"", "s", "h", "o", "w", "\"", ",", "\"", "s", "h", "o", "w", "\"", ":", "{", "\"", "f", "i", "l", "e", "_", "n", "a", "m", "e", "\"", ":", "\"", "R", "E", "A", "D", "M", "E", ".", "m", "d", "\"", ",", "\"", "b", "a", "s", "e", "_", "p", "a", "t", "h", "_", "k", "e", "y", "\"", ":", "\"", "d", "o", "c", "s", "\"", ",", "\"", "i", "n", "c", "l", "u", "d", "e", "_", "h", "i", "d", "d", "e", "n", "\"", ":", "f", "a", "l", "s", "e", "}", "}">>,
    \* {"action":"show","show":{"file_name":"readme.md"}}
    <<"{", "\"", "a", "c", "t", "i", "o", "n", "\"", ":", "\"", "s", "h", "o", "w", "\"", ",", "\"", "s", "h", "o", "w", "\"", ":", "{", "\"", "f", "i", "l", "e", "_", "n", "a", "m", "e", "\"", ":", "\"", "r", "e", "a", "d", "m", "e", ".", "m", "d", "\"", "}", "}">>,
    \* {"action":"show","show":{"file_name":"notes.md","base_path_key":"downloads"}}
    <<"{", "\"", "a", "c", "t", "i", "o", "n", "\"", ":", "\"", "s", "h", "o", "w", "\"", ",", "\"", "s", "h", "o", "w", "\"", ":", "{", "\"", "f", "i", "l", "e", "_", "n", "a", "m", "e", "\"", ":", "\"", "n", "o", "t", "e", "s", ".", "m", "d", "\"", ",", "\"", "b", "a", "s", "e", "_", "p", "a", "t", "h", "_", "k", "e", "y", "\"", ":", "\"", "d", "o", "w", "n", "l", "o", "a", "d", "s", "\"", "}", "}">>,
    \* {"action":"show","show":{"filename":"x.txt","base_path_key":"pictures"}}
    <<"{", "\"", "a", "c", "t", "i", "o", "n", "\"", ":", "\"", "s", "h", "o", "w", "\"", ",", "\"", "s", "h", "o", "w", "\"", ":", "{", "\"", "f", "i", "l", "e", "n", "a", "m", "e", "\"", ":", "\"", "x", ".", "t", "x", "t", "\"", ",", "\"", "b", "a", "s", "e", "_", "p", "a", "t", "h", "_", "k", "e", "y", "\"", ":", "\"", "p", "i", "c", "t", "u", "r", "e", "s", "\"", "}", "}">>,
    \* {"action":"show","show":{"file_name":"zzz.md"}}
    <<"{", "\"", "a", "c", "t", "i", "o", "n", "\"", ":", "\"", "s", "h", "o", "w", "\"", ",", "\"", "s", "h", "o", "w", "\"", ":", "{", "\"", "f", "i", "l", "e", "_", "n", "a", "m", "e", "\"", ":", "\"", "z", "z", "z", ".", "m", "d", "\"", "}", "}">>,
    \* {"action":"show","show":{"file_name":".hidden.txt","include_hidden":1}}
    <<"{", "\"", "a", "c", "t", "i", "o", "n", "\"", ":", "\"", "s", "h", "o", "w", "\"", ",", "\"", "s", "h", "o", "w", "\"", ":", "{", "\"", "f", "i", "l", "e", "_", "n", "a", "m", "e", "\"", ":", "\"", ".", "h", "i", "d", "d", "e", "n", ".", "t", "x", "t", "\"", ",", "\"", "i", "n", "c", "l", "u", "d", "e", "_", "h", "i", "d", "d", "e", "n", "\"", ":", "1", "}", "}">>,
    \* {"action":"show","show":{"file_name":"a..b","base_path_key":"docs"}}
    <<"{", "\"", "a", "c", "t", "i", "o", "n", "\"", ":", "\"", "s", "h", "o", "w", "\"", ",", "\"", "s", "h", "o", "w", "\"", ":", "{", "\"", "f", "i", "l", "e", "_", "n", "a", "m", "e", "\"", ":", "\"", "a", ".", ".", "b", "\"", ",", "\"", "b", "a", "s", "e", "_", "p", "a", "t", "h", "_", "k", "e", "y", "\"", ":", "\"", "d", "o", "c", "s", "\"", "}", "}">>,
    \* {"action":"show","show":{"file_name":"*.md"}}
    <<"{", "\"", "a", "c", "t", "i", "o", "n", "\"", ":", "\"", "s", "h", "o", "w", "\"", ",", "\"", "s", "h", "o", "w", "\"", ":", "{", "\"", "f", "i", "l", "e", "_", "n", "a", "m", "e", "\"", ":", "\"", "*", ".", "m", "d", "\"", "}", "}">>,
    \* {"action":"show","show":{"file_name":"docs/a.txt","base_path_key":"docs"}}
    <<"{", "\"", "a", "c", "t", "i", "o", "n", "\"", ":", "\"", "s", "h", "o", "w", "\"", ",", "\"", "s", "h", "o", "w", "\"", ":", "{", "\"", "f", "i", "l", "e", "_", "n", "a", "m", "e", "\"", ":", "\"", "d", "o", "c", "s", "/", "a", ".", "t", "x", "t", "\"", ",", "\"", "b", "a", "s", "e", "_", "p", "a", "t", "h", "_", "k", "e", "y", "\"", ":", "\"", "d", "o", "c", "s", "\"", "}", "}">>,
    \* {"action":"show","show":{"file_name":7,"base_path_key":"Docs"}}
    <<"{", "\"", "a", "c", "t", "i", "o", "n", "\"", ":", "\"", "s", "h", "o", "w", "\"", ",", "\"", "s", "h", "o", "w", "\"", ":", "{", "\"", "f", "i", "l", "e", "_", "n", "a", "m", "e", "\"", ":", "7", ",", "\"", "b", "a", "s", "e", "_", "p", "a", "t", "h", "_", "k", "e", "y", "\"", ":", "\"", "D", "o", "c", "s", "\"", "}", "}">>,
    \* {"action":"show","show":{"file_name":"a.txt","base_path_key":"Docs"}}
    <<"{", "\"", "a", "c", "t", "i", "o", "n", "\"", ":", "\"", "s", "h", "o", "w", "\"", ",", "\"", "s", "h", "o", "w", "\"", ":", "{", "\"", "f", "i", "l", "e", "_", "n", "a", "m", "e", "\"", ":", "\"", "a", ".", "t", "x", "t", "\"", ",", "\"", "b", "a", "s", "e", "_", "p", "a", "t", "h", "_", "k", "e", "y", "\"", ":", "\"", "D", "o", "c", "s", "\"", "}", "}">>,
    \* {"action":"show"}
    <<"{", "\"", "a", "c", "t", "i", "o", "n", "\"", ":", "\"", "s", "h", "o", "w", "\"", "}">>
}

Queries == {
    \* show README.md from docs
    <<"s", "h", "o", "w", " ", "R", "E", "A", "D", "M", "E", ".", "m", "d", " ", "f", "r", "o", "m", " ", "d", "o", "c", "s">>,
    \* open 'a.txt' now
    <<"o", "p", "e", "n", " ", "'", "a", ".", "t", "x", "t", "'", " ", "n", "o", "w">>,
    \* what is a glob?
    <<"w", "h", "a", "t", " ", "i", "s", " ", "a", " ", "g", "l", "o", "b", "?">>,
    \* show '*.md' or x/y.txt
    <<"s", "h", "o", "w", " ", "'", "*", ".", "m", "d", "'", " ", "o", "r", " ", "x", "/", "y", ".", "t", "x", "t">>,
    \* exit
    <<"e", "x", "i", "t">>,
    \* Quit
    <<"Q", "u", "i", "t">>
}

(***************************************************************************)
(* main: what Python does with the values of the plan.                     *)
(***************************************************************************)
\* bool(v)
Truthy(v) ==
    CASE v.t = "null" -> FALSE
      [] v.t = "bool" -> v.b
      [] v.t = "num" -> v.n # 0
      [] v.t = "str" -> v.s # <<>>
      [] v.t = "arr" -> v.a # <<>>
      [] v.t = "obj" -> v.o # <<>>

\* a or b
Or(a, b) == IF Truthy(a) THEN a ELSE b

\* dict.get(key): the last member with that key, None without one
Get(obj, key) ==
    IF \E i \in DOMAIN obj.o : obj.o[i].k = key
    THEN obj.o[CHOOSE i \in DOMAIN obj.o :
                  obj.o[i].k = key /\ \A j \in (i + 1)..Len(obj.o) : obj.o[j].k # key].v
    ELSE JNull

allowed_keys == <<
    <<"d", "o", "c", "s">>,
    <<"d", "o", "w", "n", "l", "o", "a", "d", "s">>,
    <<"d", "e", "s", "k", "t", "o", "p">>,
    <<"p", "i", "c", "t", "u", "r", "e", "s">>,
    <<"v", "i", "d", "e", "o", "s">>,
    <<"m", "u", "s", "i", "c">>
>>

\* a validation that lets every key through
BadKey_Never(base_key) == FALSE

\* base_key is not None and base_key not in allowed_keys
BadKey(base_key) ==
    /\ base_key.t # "null"
    /\ ~(base_key.t = "str" /\ \E i \in DOMAIN allowed_keys : allowed_keys[i] = base_key.s)

HasAny(name, chars) == \E i \in DOMAIN name : name[i] \in chars

\* _is_simple_filename, applied to a string
is_simple_filename(name) ==
    /\ name # <<>>
    /\ ~HasAny(name, {"\\", "/", ":"})
    /\ ~HasAny(name, {"*", "?", "[", "]"})

IsQuote(c) == c \in {"\"", "'"}

\* re.findall(r'["\']([^"\']{1,255})["\']', query), scanning from index i
RECURSIVE Quoted(_, _)
Quoted(q, i) ==
    IF ~\E a \in i..Len(q) : IsQuote(q[a]) THEN <<>>
    ELSE LET a == CHOOSE a \in i..Len(q) :
                     IsQuote(q[a]) /\ \A k \in i..(a - 1) : ~IsQuote(q[k])
         IN IF ~\E b \in (a + 1)..Len(q) : IsQuote(q[b]) THEN <<>>
            ELSE LET b == CHOOSE b \in (a + 1)..Len(q) :
                             IsQuote(q[b]) /\ \A k \in (a + 1)..(b - 1) : ~IsQuote(q[k])
                 IN IF b = a + 1 THEN Quoted(q, b)
                    ELSE <<SubSeq(q, a + 1, b - 1)>> \o Quoted(q, b + 1)

\* query.split(), scanning from index i
RECURSIVE Split(_, _)
Split(q, i) ==
    LET a == SkipWs(q, i)
    IN IF a > Len(q) THEN <<>>
       ELSE LET b == IF \E k \in a..Len(q) : q[k] = " "
                     THEN CHOOSE k \in a..Len(q) :
                              q[k] = " " /\ \A m \in a..(k - 1) : q[m] # " "
                     ELSE Len(q) + 1
            IN <<SubSeq(q, a, b - 1)>> \o Split(q, b)

\* the first element of seq that passes, as <<x>>; <<>> when none does
FirstThat(seq, Test(_)) ==
    IF \E i \in DOMAIN seq : Test(seq[i])
    THEN <<seq[CHOOSE i \in DOMAIN seq :
                  Test(seq[i]) /\ \A k \in 1..(i - 1) : ~Test(seq[k])]>>
    ELSE <<>>

\* the fallback of lines 229-242: a quoted segment first, then a token with a dot
Recover(q) ==
    LET quoted == FirstThat(Quoted(q, 1), is_simple_filename)
    IN IF quoted # <<>> THEN quoted
       ELSE FirstThat(Split(q, 1), LAMBDA tok : HasAny(tok, {"."}) /\ is_simple_filename(tok))

\* Body applied to value, with value computed once
With(value, Body(_)) == CHOOSE r \in {Body(x) : x \in {value}} : TRUE

\* seq[:n]
Take(seq, n) == SubSeq(seq, 1, IF Len(seq) < n THEN Len(seq) ELSE n)

SEARCH_PREVIEW == 50
HINT_PREVIEW == 10
AMBIGUOUS_PREVIEW == 20

ClarifyDefault ==
    <<"C", "o", "u", "l", "d", " ", "y", "o", "u", " ", "c", "l", "a", "r", "i", "f", "y",
      " ", "y", "o", "u", "r", " ", "r", "e", "q", "u", "e", "s", "t", "?">>

(***************************************************************************)
(* call_grpc_server: the request it sends and the list it returns.  up is  *)
(* whether the service answers; grpc.RpcError gives the empty list.        *)
(***************************************************************************)
call_grpc_server(file_pattern, base_key, hidden, up) ==
    With(SearchFiles(ALLOWED_PATHS,
                     SearchRequest(file_pattern, base_key.t # "null",
                                   IF base_key.t = "str" THEN base_key.s ELSE <<>>,
                                   hidden)).response,
         LAMBDA resp :
            [sent |-> <<SearchRequest(file_pattern, base_key.t # "null",
                                      IF base_key.t = "str" THEN base_key.s ELSE <<>>,
                                      hidden)>>,
             rpc_failed |-> ~up,
             error |-> IF up THEN resp.error_message ELSE "",
             files |-> IF up /\ resp.error_message = "" THEN resp.found_files ELSE <<>>])

(***************************************************************************)
(* main: one turn after the plan is parsed (lines 198-327).  An outcome    *)
(* says what the turn printed (kind, text, listed, more), the request it   *)
(* sent, the list the call returned, the file it opened, and whether an    *)
(* exception reached the handler of line 329.                              *)
(***************************************************************************)
NoOutcome ==
    [kind |-> "", text |-> JNull, sent |-> <<>>, rpc_failed |-> FALSE, server_error |-> "",
     candidates |-> <<>>, file_name |-> <<>>, listed |-> <<>>, more |-> 0,
     read |-> <<>>, raised |-> ""]

\* except Exception as e: (line 329)
LoopError(where) == [NoOutcome EXCEPT !.kind = "loop_error", !.raised = where]

\* os.path.basename(p)
basename(p) == p[Len(p)]

\* a filter that compares the names as they are
ExactMatches_CaseSensitive(candidates, file_name) ==
    SelectSeq(candidates, LAMBDA p : basename(p) = file_name)

\* exact = [p for p in candidates if os.path.basename(p).lower() == fname_lower]
ExactMatches(candidates, file_name) ==
    SelectSeq(candidates, LAMBDA p : Lower(basename(p)) = Lower(file_name))

\* lines 264-303
ShowResolve(file_name, call) ==
    LET candidates == call.files
        exact == ExactMatches(candidates, file_name)
        base == [NoOutcome EXCEPT !.sent = call.sent, !.candidates = candidates,
                                  !.file_name = file_name,
                                  !.rpc_failed = call.rpc_failed,
                                  !.server_error = call.error]
    IN IF exact = <<>>
       THEN [base EXCEPT !.kind = "show_not_found",
                         !.listed = Take(candidates, HINT_PREVIEW)]
       ELSE IF Len(exact) > 1
       THEN [base EXCEPT !.kind = "show_ambiguous",
                         !.listed = Take(exact, AMBIGUOUS_PREVIEW),
                         !.more = IF Len(exact) > AMBIGUOUS_PREVIEW
                                  THEN Len(exact) - AMBIGUOUS_PREVIEW ELSE 0]
       ELSE [base EXCEPT !.kind = IF isdir(exact[1]) THEN "show_read_failed"
                                  ELSE "show_content",
                         !.read = <<exact[1]>>]

\* lines 207-262
ShowTurn(p, q, up) ==
    LET show_args == Or(Get(p, W_show), JObj(<<>>))
    IN IF show_args.t # "obj" THEN LoopError("dispatch")
       ELSE LET fn == Or(Get(show_args, W_file_name),
                      Or(Get(show_args, W_filename),
                      Or(Get(show_args, W_name), Get(show_args, W_file))))
                base_key == Get(show_args, W_base_path_key)
                include_hidden == Truthy(Get(show_args, W_include_hidden))
                given == IF fn.t = "str" THEN fn.s ELSE <<>>
                file_name == IF is_simple_filename(given) THEN given ELSE Recover(q)[1]
            IN IF ~is_simple_filename(given) /\ Recover(q) = <<>>
               THEN [NoOutcome EXCEPT !.kind = "show_missing_name"]
               ELSE IF HasAny(file_name, {"\\", "/", ":", "*", "?", "[", "]"})
               THEN [NoOutcome EXCEPT !.kind = "show_not_simple"]
               ELSE IF BadKey(base_key)
               THEN [NoOutcome EXCEPT !.kind = "show_invalid_key"]
               ELSE With(call_grpc_server(file_name, base_key, include_hidden, up),
                         LAMBDA call : ShowResolve(file_name, call))

\* what call_grpc_server prints when verbose (lines 86-110)
SearchReport(call) ==
    LET base == [NoOutcome EXCEPT !.sent = call.sent, !.candidates = call.files,
                                  !.rpc_failed = call.rpc_failed]
    IN IF call.rpc_failed
       THEN [base EXCEPT !.kind = "search_rpc_failed"]
       ELSE IF call.error # ""
       THEN [base EXCEPT !.kind = "search_server_error", !.server_error = call.error]
       ELSE IF call.files = <<>>
       THEN [base EXCEPT !.kind = "search_no_files"]
       ELSE [base EXCEPT !.kind = "search_found",
                         !.listed = Take(call.files, SEARCH_PREVIEW),
                         !.more = IF Len(call.files) > SEARCH_PREVIEW
                                  THEN Len(call.files) - SEARCH_PREVIEW ELSE 0]

\* lines 304-323
SearchTurn(p, up) ==
    LET search_args == Or(Get(p, W_search), JObj(<<>>))
    IN IF search_args.t # "obj" THEN LoopError("dispatch")
       ELSE LET file_pattern == Get(search_args, W_file_pattern)
                base_key == Get(search_args, W_base_path_key)
                include_hidden == Truthy(Get(search_args, W_include_hidden))
            IN IF BadKey(base_key)
               THEN [NoOutcome EXCEPT !.kind = "search_invalid_key"]
               ELSE IF ~Truthy(file_pattern) \/ file_pattern.t # "str"
               THEN [NoOutcome EXCEPT !.kind = "search_missing_pattern"]
               ELSE With(call_grpc_server(file_pattern.s, base_key, include_hidden, up),
                         LAMBDA call : SearchReport(call))

\* lines 198-327: p is the plan, q the query, raw the completion
Dispatch(p, q, raw, up) ==
    IF p.t # "obj" THEN LoopError("dispatch")
    ELSE LET a == Or(Get(p, W_action), JStr(<<>>))
         IN IF a.t # "str" THEN LoopError("dispatch")
            ELSE IF Lower(a.s) = W_answer
            THEN [NoOutcome EXCEPT !.kind = "answer",
                                   !.text = Or(Get(p, W_answer), JStr(<<>>))]
            ELSE IF Lower(a.s) = W_clarify
            THEN [NoOutcome EXCEPT !.kind = "clarify",
                                   !.text = Or(Get(p, W_clarify), JStr(ClarifyDefault))]
            ELSE IF Lower(a.s) = W_show THEN ShowTurn(p, q, up)
            ELSE IF Lower(a.s) = W_search THEN SearchTurn(p, up)
            ELSE [NoOutcome EXCEPT !.kind = "unexpected", !.text = JStr(raw)]

(***************************************************************************)
(* The client loop as a state machine: one turn is input(), llm.invoke,    *)
(* the JSON cascade, and the dispatch of the plan.                         *)
(***************************************************************************)
\* the tables of the service the client talks to: Videos and Music, which no
\* completion or query of the model names, are left out
ClientFolderChoices == {kf \in KnownFolderChoices : kf[5] = NoPath /\ kf[6] = NoPath}

ClientInit ==
    /\ \E kf \in ClientFolderChoices : ALLOWED_PATHS = BuildTable(kf)
    /\ request = <<>>
    /\ response = <<>>
    /\ searched = <<>>
    /\ pc = "prompt"
    /\ query = <<>>
    /\ ai_raw = <<>>
    /\ plan = <<>>
    /\ outcome = <<>>
    /\ turns = 0
    /\ calls = <<>>
    /\ PoolIdle

\* query = input("\n> "); exit and quit leave the loop.  The locals of the
\* turn before are set to nothing here: every path of the body assigns them
\* before it reads them (SessionSpec keeps them and checks that).
ReadInput(q) ==
    /\ pc = "prompt"
    /\ turns < MaxTurns
    /\ turns' = turns + 1
    /\ query' = q
    /\ calls' = <<>>
    /\ IF Lower(q) \in {W_exit, W_quit}
       THEN pc' = "done" /\ UNCHANGED <<ai_raw, plan, outcome>>
       ELSE pc' = "invoke" /\ ai_raw' = <<>> /\ plan' = <<>> /\ outcome' = <<>>
    /\ UNCHANGED <<serverVars, poolVars>>

\* query = input("\n> ") as Python runs it: ai_raw, plan and the rest of the
\* locals keep the values of the turn before
ReadInputKeeping(q) ==
    /\ pc = "prompt"
    /\ turns < MaxTurns
    /\ turns' = turns + 1
    /\ query' = q
    /\ calls' = <<>>
    /\ pc' = IF Lower(q) \in {W_exit, W_quit} THEN "done" ELSE "invoke"
    /\ UNCHANGED <<ai_raw, plan, outcome>>
    /\ UNCHANGED <<serverVars, poolVars>>

\* ai_raw = llm.invoke(planning_instructions)
InvokeReturns(raw) ==
    /\ pc = "invoke"
    /\ ai_raw' = <<raw>>
    /\ calls' = Append(calls, "llm")
    /\ pc' = "parse"
    /\ UNCHANGED <<query, plan, outcome, turns>>
    /\ UNCHANGED <<serverVars, poolVars>>

\* llm.invoke raises: the handler of line 329 ends the turn
InvokeRaises ==
    /\ pc = "invoke"
    /\ outcome' = <<LoopError("invoke")>>
    /\ calls' = Append(calls, "llm")
    /\ pc' = "prompt"
    /\ UNCHANGED <<query, ai_raw, plan, turns>>
    /\ UNCHANGED <<serverVars, poolVars>>

\* a cascade that leaves plan as it was when nothing parses
Parse_KeepOnFailure ==
    /\ pc = "parse"
    /\ plan' = IF ParsePlan(ai_raw[1]) = AnswerPlan(ai_raw[1]) /\ plan # <<>>
               THEN plan
               ELSE <<ParsePlan(ai_raw[1])>>
    /\ pc' = "dispatch"
    /\ UNCHANGED <<query, ai_raw, outcome, turns, calls>>
    /\ UNCHANGED <<serverVars, poolVars>>

\* lines 182-196
Parse ==
    /\ pc = "parse"
    /\ plan' = <<ParsePlan(ai_raw[1])>>
    /\ pc' = "dispatch"
    /\ UNCHANGED <<query, ai_raw, outcome, turns, calls>>
    /\ UNCHANGED <<serverVars, poolVars>>

\* lines 198-327, the remote call included
DispatchPlan ==
    /\ pc = "dispatch"
    /\ \E up \in BOOLEAN :
          \E o \in {Dispatch(plan[1], query, ai_raw[1], up)} :
              /\ outcome' = <<o>>
              /\ calls' = calls \o [i \in DOMAIN o.sent |-> "rpc"]
    /\ pc' = "prompt"
    /\ UNCHANGED <<query, ai_raw, plan, turns>>
    /\ UNCHANGED <<serverVars, poolVars>>

ClientNext ==
    \/ \E q \in Queries : ReadInput(q)
    \/ \E raw \in Completions : InvokeReturns(raw)
    \/ InvokeRaises
    \/ Parse
    \/ DispatchPlan

ClientSpec == ClientInit /\ [][ClientNext]_vars

(***************************************************************************)
(* A session of several turns in which the locals of main live on from one *)
(* turn to the next, as they do in the process.                            *)
(***************************************************************************)
SessionFolderChoices ==
    {kf \in KnownFolderChoices :
        kf[1] = DocsPath /\ \A i \in {2, 3, 5, 6} : kf[i] = NoPath}

SessionCompletions == {
    \* {"action":"answer","answer":"hi"}
    <<"{", "\"", "a", "c", "t", "i", "o", "n", "\"", ":", "\"", "a", "n", "s", "w", "e", "r", "\"", ",", "\"", "a", "n", "s", "w", "e", "r", "\"", ":", "\"", "h", "i", "\"", "}">>,
    \* not json at all
    <<"n", "o", "t", " ", "j", "s", "o", "n", " ", "a", "t", " ", "a", "l", "l">>,
    \* {"action":"clarify","clarify":"where?"}
    <<"{", "\"", "a", "c", "t", "i", "o", "n", "\"", ":", "\"", "c", "l", "a", "r", "i", "f", "y", "\"", ",", "\"", "c", "l", "a", "r", "i", "f", "y", "\"", ":", "\"", "w", "h", "e", "r", "e", "?", "\"", "}">>,
    \* {"action":"show","show":{"file_name":"a.txt","base_path_key":"docs"}}
    <<"{", "\"", "a", "c", "t", "i", "o", "n", "\"", ":", "\"", "s", "h", "o", "w", "\"", ",", "\"", "s", "h", "o", "w", "\"", ":", "{", "\"", "f", "i", "l", "e", "_", "n", "a", "m", "e", "\"", ":", "\"", "a", ".", "t", "x", "t", "\"", ",", "\"", "b", "a", "s", "e", "_", "p", "a", "t", "h", "_", "k", "e", "y", "\"", ":", "\"", "d", "o", "c", "s", "\"", "}", "}">>,
    \* {"action":"search","search":{"file_pattern":"*.txt","base_path_key":"docs","include_hidden":false}}
    <<"{", "\"", "a", "c", "t", "i", "o", "n", "\"", ":", "\"", "s", "e", "a", "r", "c", "h", "\"", ",", "\"", "s", "e", "a", "r", "c", "h", "\"", ":", "{", "\"", "f", "i", "l", "e", "_", "p", "a", "t", "t", "e", "r", "n", "\"", ":", "\"", "*", ".", "t", "x", "t", "\"", ",", "\"", "b", "a", "s", "e", "_", "p", "a", "t", "h", "_", "k", "e", "y", "\"", ":", "\"", "d", "o", "c", "s", "\"", ",", "\"", "i", "n", "c", "l", "u", "d", "e", "_", "h", "i", "d", "d", "e", "n", "\"", ":", "f", "a", "l", "s", "e", "}", "}">>,
    \* {"action":"search","search":{"file_pattern":"*","base_path_key":"tmp"}}
    <<"{", "\"", "a", "c", "t", "i", "o", "n", "\"", ":", "\"", "s", "e", "a", "r", "c", "h", "\"", ",", "\"", "s", "e", "a", "r", "c", "h", "\"", ":", "{", "\"", "f", "i", "l", "e", "_", "p", "a", "t", "t", "e", "r", "n", "\"", ":", "\"", "*", "\"", ",", "\"", "b", "a", "s", "e", "_", "p", "a", "t", "h", "_", "k", "e", "y", "\"", ":", "\"", "t", "m", "p", "\"", "}", "}">>
}

SessionQueries == {
    \* show README.md from docs
    <<"s", "h", "o", "w", " ", "R", "E", "A", "D", "M", "E", ".", "m", "d", " ", "f", "r", "o", "m", " ", "d", "o", "c", "s">>,
    \* exit
    <<"e", "x", "i", "t">>
}

SessionInit ==
    /\ \E kf \in SessionFolderChoices : ALLOWED_PATHS = BuildTable(kf)
    /\ request = <<>>
    /\ response = <<>>
    /\ searched = <<>>
    /\ pc = "prompt"
    /\ query = <<>>
    /\ ai_raw = <<>>
    /\ plan = <<>>
    /\ outcome = <<>>
    /\ turns = 0
    /\ calls = <<>>
    /\ PoolIdle

SessionNext ==
    \/ \E q \in SessionQueries : ReadInputKeeping(q)
    \/ \E raw \in SessionCompletions : InvokeReturns(raw)
    \/ InvokeRaises
    \/ Parse
    \/ DispatchPlan

SessionSpec == SessionInit /\ [][SessionNext]_vars

(***************************************************************************)
(* Properties of the client loop.                                          *)
(***************************************************************************)
\* a turn that got a completion and ran to its end
TurnDone == plan # <<>> /\ outcome # <<>>

PlanVariants == {W_search, W_show, W_answer, W_clarify}

IsVariant(p) ==
    /\ p.t = "obj"
    /\ Get(p, W_action).t = "str"
    /\ Lower(Get(p, W_action).s) \in PlanVariants

\* the turn printed the completion as it came
ShowsRawText(o, raw) == o.kind \in {"answer", "unexpected"} /\ o.text = JStr(raw)

\* C6: for every completion the backend returns, parsing and dispatch raise
\* nothing: the turn never ends in the error handler of the loop, and its
\* plan is one of the four variants or the turn shows the raw completion.
C6_PlanOrRawText ==
    TurnDone =>
        /\ outcome[1].kind # "loop_error"
        /\ IsVariant(plan[1]) \/ ShowsRawText(outcome[1], ai_raw[1])

AnswerHi ==
    <<"{", "\"", "a", "c", "t", "i", "o", "n", "\"", ":", "\"", "a", "n", "s", "w", "e", "r",
      "\"", ",", "\"", "a", "n", "s", "w", "e", "r", "\"", ":", "\"", "h", "i", "\"", "}">>

ProseAroundAnswer ==
    <<"h", "e", "r", "e", "'", "s", " ", "y", "o", "u", "r", " ", "a", "n", "s", "w", "e",
      "r", ":", " ">> \o AnswerHi \o <<" ", "t", "h", "a", "n", "k", "s">>

NotJson ==
    <<"n", "o", "t", " ", "j", "s", "o", "n", " ", "a", "t", " ", "a", "l", "l">>

\* the text from the first "{" to the last "}", <<>> when there is none
BraceCut(raw) ==
    LET opens == {i \in DOMAIN raw : raw[i] = "{"}
        closes == {i \in DOMAIN raw : raw[i] = "}"}
    IN IF opens = {} \/ closes = {} THEN <<>>
       ELSE SubSeq(raw, CHOOSE i \in opens : \A k \in opens : i <= k,
                        CHOOSE j \in closes : \A k \in closes : k <= j)

\* C7: the plan is (a) the whole completion parsed as JSON when that parses,
\* (b) otherwise the text from the first "{" to the last "}" parsed as JSON
\* when there is such a text and it parses, (c) otherwise the answer plan
\* that carries the raw completion; prose around an answer object gives that
\* object's answer, and text without JSON gives the whole text as the answer.
C7_ParseCascade ==
    plan # <<>> =>
        LET raw == ai_raw[1]
            whole == Loads(raw)
            cut == BraceCut(raw)
        IN /\ whole.ok => plan[1] = whole.v
           /\ (~whole.ok /\ cut # <<>> /\ Loads(cut).ok) => plan[1] = Loads(cut).v
           /\ (~whole.ok /\ (cut = <<>> \/ ~Loads(cut).ok)) => plan[1] = AnswerPlan(raw)
           /\ raw = ProseAroundAnswer => plan[1] = AnswerPlan(<<"h", "i">>)
           /\ raw = NotJson => plan[1] = AnswerPlan(NotJson)

\* C7 witness: the plan was cut out of the prose around it
C7_Witness ==
    /\ ai_raw = <<ProseAroundAnswer>>
    /\ plan = <<AnswerPlan(<<"h", "i">>)>>
    /\ ~Loads(ProseAroundAnswer).ok

ShowResolved == {"show_not_found", "show_ambiguous", "show_read_failed", "show_content"}

\* the candidates whose base name is the requested name, case aside
ExactOf(o) ==
    {i \in DOMAIN o.candidates :
        Lower(o.candidates[i][Len(o.candidates[i])]) = Lower(o.file_name)}

\* C8: in a show turn, with E the candidates whose base name equals the
\* requested name case-insensitively, the client opens a path if and only
\* if |E| = 1, and the path is the one of E; with |E| = 0 the outcome is
\* "not found" with at most 10 of the candidates as hints; with |E| >= 2 the
\* outcome is the ambiguity, listing at most 20 of E and the count of the
\* rest, and nothing is opened.
C8_ReadIffOneExact ==
    (outcome # <<>> /\ outcome[1].kind \in ShowResolved) =>
        LET o == outcome[1]
            E == ExactOf(o)
        IN /\ o.read # <<>> <=> Cardinality(E) = 1
           /\ Cardinality(E) = 1 => \A i \in E : o.read = <<o.candidates[i]>>
           /\ Cardinality(E) = 0 =>
                 /\ o.kind = "show_not_found"
                 /\ Len(o.listed) <= 10
                 /\ o.listed = SubSeq(o.candidates, 1, Len(o.listed))
                 /\ Len(o.listed) < 10 => o.listed = o.candidates
           /\ Cardinality(E) >= 2 =>
                 /\ o.kind = "show_ambiguous"
                 /\ o.read = <<>>
                 /\ Len(o.listed) <= 20
                 /\ \A k \in DOMAIN o.listed :
                        \E i \in E : o.listed[k] = o.candidates[i]
                 /\ o.more = Cardinality(E) - Len(o.listed)

\* C8 witness: more than 20 files of the requested name, none opened
C8_Witness ==
    /\ outcome # <<>>
    /\ outcome[1].kind = "show_ambiguous"
    /\ Cardinality(ExactOf(outcome[1])) > 20
    /\ Len(outcome[1].listed) = 20
    /\ outcome[1].more >= 1

\* the outcomes of a well-formed request that matched nothing
ZeroMatchOutcomes == {"search_no_files", "show_not_found"}

\* C11: in every turn, search or show, where the service responds with an
\* error_message, the turn ends in the error outcome shown to the user and
\* not in the outcome of a well-formed request with zero matches.
C11_ErrorIsNotZeroMatches ==
    (outcome # <<>> /\ outcome[1].sent # <<>> /\ outcome[1].server_error # "") =>
        /\ outcome[1].kind \notin ZeroMatchOutcomes
        /\ outcome[1].kind = "search_server_error"

\* a thread whose response is ready
Replying(w) == workers[w].pc = "return"

\* C12: under every interleaving of the pool's threads, the response of each
\* request equals the response the handler gives that request alone, two
\* threads that hold the same request hold the same found_files in the same
\* order, and no step changes the sandbox table.
C12_RequestsAreIndependent ==
    /\ [](\A w \in 1..MaxWorkers :
            Replying(w) =>
                workers[w].response
                    = SearchFiles(ALLOWED_PATHS, workers[w].request[1]).response)
    /\ [](\A w, v \in 1..MaxWorkers :
            (Replying(w) /\ Replying(v) /\ workers[w].request = workers[v].request) =>
                workers[w].response.found_files = workers[v].response.found_files)
    /\ [][ALLOWED_PATHS' = ALLOWED_PATHS]_vars

\* C12 witness: two threads were in the global search at the same time and
\* both hold a response with files, one for each of two different requests
C12_Witness ==
    /\ MaxWorkers >= 2
    /\ Replying(1) /\ Replying(2)
    /\ workers[1].request # workers[2].request
    /\ workers[1].next > 1 /\ workers[2].next > 1
    /\ workers[1].response.found_files # <<>>
    /\ workers[2].response.found_files # <<>>

FixedKeys == {KeyOrder[i] : i \in DOMAIN KeyOrder}

NameBreakers == {"/", "\\", ":", "*", "?", "[", "]"}

\* the value is a name the show action accepts
ValidName(v) ==
    /\ v.t = "str"
    /\ v.s # <<>>
    /\ \A i \in DOMAIN v.s : v.s[i] \notin NameBreakers

\* the value is no key the client accepts
InvalidKeyValue(v) == v.t # "null" /\ ~(v.t = "str" /\ v.s \in FixedKeys)

\* the plan has this action and an object (or nothing) as its arguments
PlanFor(p, word) ==
    /\ IsVariant(p)
    /\ Lower(Get(p, W_action).s) = word
    /\ ~Truthy(Get(p, word)) \/ Get(p, word).t = "obj"

ArgsOf(p, word) == IF Truthy(Get(p, word)) THEN Get(p, word) ELSE JObj(<<>>)

\* the file name the model gave, under the first of its four names that is set
GivenName(args) ==
    IF Truthy(Get(args, W_file_name)) THEN Get(args, W_file_name)
    ELSE IF Truthy(Get(args, W_filename)) THEN Get(args, W_filename)
    ELSE IF Truthy(Get(args, W_name)) THEN Get(args, W_name)
    ELSE Get(args, W_file)

\* C13: every remote search call of a turn has a base key that is absent or
\* one of the six fixed keys and a non-empty pattern, and in a show turn a
\* pattern without / \ : * ? [ ]; a search plan with an invalid key or a
\* missing, non-string or empty pattern, and a show plan with an invalid key
\* or with no valid file name in the model's value or in the query, end the
\* turn with a message and without a remote call.
C13_OnlyValidatedCalls ==
    (TurnDone /\ pc = "prompt") =>
        LET o == outcome[1]
            p == plan[1]
        IN /\ Len(o.sent) <= 1
           /\ \A i \in DOMAIN o.sent :
                 /\ o.sent[i].has_base_path_key => o.sent[i].base_path_key \in FixedKeys
                 /\ o.sent[i].file_pattern # <<>>
                 /\ PlanFor(p, W_show) =>
                        \A k \in DOMAIN o.sent[i].file_pattern :
                            o.sent[i].file_pattern[k] \notin NameBreakers
           /\ (/\ PlanFor(p, W_search)
               /\ \/ InvalidKeyValue(Get(ArgsOf(p, W_search), W_base_path_key))
                  \/ Get(ArgsOf(p, W_search), W_file_pattern).t # "str"
                  \/ Get(ArgsOf(p, W_search), W_file_pattern).s = <<>>)
                 => /\ o.sent = <<>>
                    /\ o.kind \in {"search_invalid_key", "search_missing_pattern"}
           /\ (/\ PlanFor(p, W_show)
               /\ \/ InvalidKeyValue(Get(ArgsOf(p, W_show), W_base_path_key))
                  \/ /\ ~ValidName(GivenName(ArgsOf(p, W_show)))
                     /\ Recover(query) = <<>>)
                 => /\ o.sent = <<>>
                    /\ o.kind \in {"show_invalid_key", "show_missing_name"}

\* C13 witness: the model gave no file name, the query did, and the call
\* went out with that name
C13_Witness ==
    /\ TurnDone
    /\ pc = "prompt"
    /\ PlanFor(plan[1], W_show)
    /\ ~ValidName(GivenName(ArgsOf(plan[1], W_show)))
    /\ Len(outcome[1].sent) = 1
    /\ <<outcome[1].sent[1].file_pattern>> = Recover(query)

\* a search plan that passes the validation of the client
ValidSearchPlan(p) ==
    /\ PlanFor(p, W_search)
    /\ ~InvalidKeyValue(Get(ArgsOf(p, W_search), W_base_path_key))
    /\ Get(ArgsOf(p, W_search), W_file_pattern).t = "str"
    /\ Get(ArgsOf(p, W_search), W_file_pattern).s # <<>>

\* a show plan that passes it, with the file name of the model or of the query
ValidShowPlan(p, q) ==
    /\ PlanFor(p, W_show)
    /\ ~InvalidKeyValue(Get(ArgsOf(p, W_show), W_base_path_key))
    /\ ValidName(GivenName(ArgsOf(p, W_show))) \/ Recover(q) # <<>>

\* C14: a turn other than exit/quit calls the completion backend exactly
\* once, before any remote call, and then makes at most one remote search
\* call: exactly one for a valid search or show plan, none for the other
\* plans; and what the turn does is given by its own query and completion
\* (and the service's answer) alone, whatever the turns before left behind.
C14_OneCompletionThenOneCall ==
    /\ pc = "invoke" => calls = <<>>
    /\ pc \in {"parse", "dispatch"} => calls = <<"llm">>
    /\ pc = "done" => calls = <<>>
    /\ (pc = "prompt" /\ turns > 0) =>
          /\ calls \in {<<"llm">>, <<"llm", "rpc">>}
          /\ outcome[1].raised = "invoke" => calls = <<"llm">>
          /\ outcome[1].raised # "invoke" =>
                /\ calls = <<"llm", "rpc">>
                      <=> \/ ValidSearchPlan(ParsePlan(ai_raw[1]))
                          \/ ValidShowPlan(ParsePlan(ai_raw[1]), query)
                /\ \E up \in BOOLEAN :
                      outcome[1] = Dispatch(ParsePlan(ai_raw[1]), query, ai_raw[1], up)

\* C14 witness: a second turn that read a file, after one completion call and
\* one remote call in that order
C14_Witness ==
    /\ pc = "prompt"
    /\ turns = 2
    /\ calls = <<"llm", "rpc">>
    /\ outcome[1].kind = "show_content"

\* the outcomes that tell the user of a failure and what to check
FailureReports == {"loop_error", "search_rpc_failed"}

\* C15: a turn in which the completion backend or the remote search call
\* fails, in a search turn or in a show turn, ends at the prompt with the
\* failure reported to the user together with guidance; the loop is left
\* only on exit or quit, in any letter case.
C15_FailureReportedAndLoopGoesOn ==
    /\ pc = "done" => Lower(query) \in {W_exit, W_quit}
    /\ (/\ pc = "prompt"
        /\ turns > 0
        /\ outcome[1].raised = "invoke" \/ outcome[1].rpc_failed)
          => outcome[1].kind \in FailureReports

\* the directory at this path cannot be listed
Unlistable(path) == isdir(path) /\ ~Nodes[NodeAt(path)].readable

FoundSet == {Resp.found_files[i] : i \in DOMAIN Resp.found_files}

\* C16: a directory that cannot be listed, below a root or a root itself,
\* never gives a response error and never ends the search: for a safe
\* pattern and a usable key the response has no error_message, every match
\* that the walk of a searched root can list outside the failing directories
\* is returned, for this root and for the others, and when every searched
\* root fails found_files is empty, still without error.
C16_TraversalFailureSwallowed ==
    (Handled /\ SafePattern(Req.file_pattern) /\ (KeyGiven(Req) => KeyInTable)) =>
        /\ Resp.error_message = ""
        /\ \A s \in DOMAIN searched : \A n \in DOMAIN Nodes :
              (/\ WalkLists(NodeAt(searched[s]), n, Req.include_hidden)
               /\ GlobMatch(Lower(Nodes[n].name), Lower(Req.file_pattern)))
                 => PathOf[n] \in FoundSet
        /\ (\A s \in DOMAIN searched : Unlistable(searched[s])) => Resp.found_files = <<>>

\* C16 witness: a global search over Documents, which holds a directory that
\* cannot be listed, and Videos, which cannot be listed at all: the files
\* beside the locked directory came back, the ones inside did not
C16_Witness ==
    /\ Handled
    /\ ~Req.has_base_path_key
    /\ Req.file_pattern = <<"*", ".", "t", "x", "t">>
    /\ \E s \in DOMAIN searched : searched[s] = VaultPath
    /\ \E s \in DOMAIN searched : searched[s] = DocsPath
    /\ Resp.error_message = ""
    /\ Append(DocsPath, <<"a", ".", "t", "x", "t">>) \in FoundSet
    /\ DocsPath \o <<<<"s", "u", "b">>, <<"b", ".", "T", "X", "T">>>> \in FoundSet
    /\ DocsPath \o <<<<"l", "o", "c", "k", "e", "d">>, <<"d", ".", "t", "x", "t">>>> \notin FoundSet
    /\ Append(VaultPath, <<"v", ".", "t", "x", "t">>) \notin FoundSet

\* a show turn that the service answered with a list of paths
ShowAnswered ==
    /\ pc = "prompt"
    /\ turns > 0
    /\ outcome[1].kind \in ShowResolved
    /\ ~outcome[1].rpc_failed
    /\ outcome[1].server_error = ""

\* name is fname with something before it or after it, case aside
VariantOf(name, fname) ==
    /\ Len(name) > Len(fname)
    /\ \/ SubSeq(Lower(name), 1, Len(fname)) = Lower(fname)
       \/ SubSeq(Lower(name), Len(name) - Len(fname) + 1, Len(name)) = Lower(fname)

\* the entries the service lists while it handles the request of the turn
ListedFor(o) ==
    {n \in DOMAIN Nodes :
        \E r \in {SearchFiles(ALLOWED_PATHS, o.sent[1]).searched} :
            \E s \in DOMAIN r : WalkLists(NodeAt(r[s]), n, o.sent[1].include_hidden)}

CandidateSet(o) == {o.candidates[i] : i \in DOMAIN o.candidates}

\* C17 as stated: the search issued with the validated file name returns the
\* prefix and suffix variants of that name as well (README.md.bak for
\* README.md), so that the exact-name filter has something to remove.
C17_SearchReturnsVariants ==
    ShowAnswered =>
        \A n \in ListedFor(outcome[1]) :
            VariantOf(Nodes[n].name, outcome[1].file_name)
                => PathOf[n] \in CandidateSet(outcome[1])

\* C17, amended: the validated file name holds no glob character, so every
\* candidate of a show turn has the file name as its base name, case aside;
\* the exact-name filter removes nothing and "not found" comes with an empty
\* candidate list and no hints.
C17_CandidatesAreExact ==
    (pc = "prompt" /\ turns > 0 /\ outcome[1].kind \in ShowResolved) =>
        /\ ExactOf(outcome[1]) = DOMAIN outcome[1].candidates
        /\ outcome[1].kind = "show_not_found" =>
              outcome[1].candidates = <<>> /\ outcome[1].listed = <<>>

\* C17 witness: README.md was asked for, README.md.bak lies beside it in a
\* searched root, and the service returned README.md without the variant
C17_Witness ==
    /\ ShowAnswered
    /\ outcome[1].file_name = <<"R", "E", "A", "D", "M", "E", ".", "m", "d">>
    /\ outcome[1].candidates # <<>>
    /\ \E n \in ListedFor(outcome[1]) :
          /\ Nodes[n].name = <<"R", "E", "A", "D", "M", "E", ".", "m", "d", ".", "b", "a", "k">>
          /\ PathOf[n] \notin CandidateSet(outcome[1])

====
